---- MODULE Spec2Model ----
(***************************************************************************)
(* Annotation alignment and scoring engine of the benchmark package        *)
(* (src/benchmarks): variant expansion, the tiered aligners of the drug,   *)
(* functional-analysis and phenotype tasks, the study-parameter aligner,   *)
(* the field evaluators and the score aggregation.                         *)
(*                                                                         *)
(* Text values are sequences of one-character strings, so that stripping,  *)
(* lower-casing, splitting, substring tests and number parsing are         *)
(* computed as the code computes them.  Python's None is the one-element   *)
(* sequence None.                                                          *)
(***************************************************************************)
EXTENDS Integers, Sequences, FiniteSets, TLC

(***************************************************************************)
(* Bounds of the model.                                                    *)
(***************************************************************************)
MaxGt == 2
MaxPred == 2
\* the most predictions of a call that supplies a field_weights table
MaxWeightedPred == 1

\* the most records of a list whose values need not be texts
MaxSamples == 2

\* the most records of a list that is evaluated twice
MaxAgain == 1

\* the most study-parameter records of a list that is only aligned
MaxStudy == 2

\* the threads that call semantic_similarity
NumThreads == 3

\* documents one call of benchmark_multiple is given
MaxDocs == 2

(***************************************************************************)
(* Values and characters.                                                  *)
(***************************************************************************)
None == <<"<None>">>

SpaceChars == {" "}
SepChars == {",", ";", "|"} \cup SpaceChars
Digits == {"0", "1", "2", "3", "4", "5", "6", "7", "8", "9"}
UpperChars ==
    {"A", "B", "C", "D", "E", "F", "G", "H", "I", "J", "K", "L", "M",
     "N", "O", "P", "Q", "R", "S", "T", "U", "V", "W", "X", "Y", "Z"}
LowerChars ==
    {"a", "b", "c", "d", "e", "f", "g", "h", "i", "j", "k", "l", "m",
     "n", "o", "p", "q", "r", "s", "t", "u", "v", "w", "x", "y", "z"}

\* Python truthiness of an optional text: None and "" are falsy
Truthy(v) == v # None /\ v # <<>>

\* (value or "")
OrEmpty(v) == IF Truthy(v) THEN v ELSE <<>>

LowerChar(c) ==
    CASE c = "A" -> "a"
      [] c = "B" -> "b"
      [] c = "C" -> "c"
      [] c = "D" -> "d"
      [] c = "E" -> "e"
      [] c = "F" -> "f"
      [] c = "G" -> "g"
      [] c = "H" -> "h"
      [] c = "I" -> "i"
      [] c = "J" -> "j"
      [] c = "K" -> "k"
      [] c = "L" -> "l"
      [] c = "M" -> "m"
      [] c = "N" -> "n"
      [] c = "O" -> "o"
      [] c = "P" -> "p"
      [] c = "Q" -> "q"
      [] c = "R" -> "r"
      [] c = "S" -> "s"
      [] c = "T" -> "t"
      [] c = "U" -> "u"
      [] c = "V" -> "v"
      [] c = "W" -> "w"
      [] c = "X" -> "x"
      [] c = "Y" -> "y"
      [] c = "Z" -> "z"
      [] OTHER -> c

\* str.lower()
Lower(s) == [i \in 1..Len(s) |-> LowerChar(s[i])]

\* first index j >= i of s whose character is not in set (Len(s)+1 if none)
SkipChars(s, i, set) ==
    IF \E j \in i..Len(s) : s[j] \notin set
    THEN CHOOSE j \in i..Len(s) :
            s[j] \notin set /\ \A k \in i..(j - 1) : s[k] \in set
    ELSE Len(s) + 1

\* last index j of s whose character is not in set (0 if none)
LastNotIn(s, set) ==
    IF \E j \in 1..Len(s) : s[j] \notin set
    THEN CHOOSE j \in 1..Len(s) :
            s[j] \notin set /\ \A k \in (j + 1)..Len(s) : s[k] \in set
    ELSE 0

\* str.strip()
Strip(s) == SubSeq(s, SkipChars(s, 1, SpaceChars), LastNotIn(s, SpaceChars))

RECURSIVE RemoveChars(_, _)
\* re.sub(r"\s+", "", s) for set = SpaceChars
RemoveChars(s, set) ==
    IF s = <<>> THEN <<>>
    ELSE IF Head(s) \in set THEN RemoveChars(Tail(s), set)
         ELSE <<Head(s)>> \o RemoveChars(Tail(s), set)

RECURSIVE CollapseSpaces(_)
\* re.sub(r"\s+", " ", s)
CollapseSpaces(s) ==
    IF s = <<>> THEN <<>>
    ELSE IF Head(s) \in SpaceChars
         THEN <<" ">> \o CollapseSpaces(SubSeq(s, SkipChars(s, 1, SpaceChars), Len(s)))
         ELSE <<Head(s)>> \o CollapseSpaces(Tail(s))

\* s.startswith(p)
StartsWith(s, p) == Len(p) <= Len(s) /\ SubSeq(s, 1, Len(p)) = p

\* (a in b) for strings
IsSubstr(a, b) ==
    \E i \in 0..(Len(b) - Len(a)) : SubSeq(b, i + 1, i + Len(a)) = a

Min(S) == CHOOSE x \in S : \A y \in S : x <= y

(***************************************************************************)
(* Tokenizer / normalizer.                                                 *)
(***************************************************************************)

\* end of the separator match of r"[,;|\s]+(?:\+\s*)?" that begins at i
SepEnd(s, i) ==
    LET j == SkipChars(s, i, SepChars)
    IN  IF j <= Len(s) /\ s[j] = "+"
        THEN SkipChars(s, j + 1, SpaceChars)
        ELSE j

RECURSIVE SplitFrom(_, _, _)
\* re.split(r"[,;|\s]+(?:\+\s*)?", s): the pieces from index i on, the current
\* piece having begun at index start
SplitFrom(s, i, start) ==
    IF i > Len(s) THEN <<SubSeq(s, start, Len(s))>>
    ELSE IF s[i] \in SepChars
         THEN <<SubSeq(s, start, i - 1)>> \o SplitFrom(s, SepEnd(s, i), SepEnd(s, i))
         ELSE SplitFrom(s, i + 1, start)

NonEmpty(t) == t # <<>>

parse_variant_list(variants_text) ==
    IF ~Truthy(variants_text) THEN <<>>
    ELSE LET tokens == SplitFrom(variants_text, 1, 1)
         IN  SelectSeq([k \in 1..Len(tokens) |-> Strip(tokens[k])], NonEmpty)

normalize_variant(variant) ==
    LET v == Strip(variant)
    IN  IF StartsWith(Lower(v), <<"r", "s">>) THEN Lower(v)
        ELSE RemoveChars(v, SpaceChars)

\* set(m.group(0).lower() for m in rs_re.finditer(raw)), rs_re = rs\d+ (IGNORECASE)
rsids_of(raw) ==
    { Lower(SubSeq(raw, i, SkipChars(raw, i + 2, Digits) - 1)) :
        i \in { k \in 1..(Len(raw) - 2) :
                  /\ LowerChar(raw[k]) = "r"
                  /\ LowerChar(raw[k + 1]) = "s"
                  /\ raw[k + 2] \in Digits } }

(***************************************************************************)
(* Annotation records are Python dicts: functions from field names to      *)
(* values, a key of the dict being an element of the domain.  The value    *)
(* under "Variant/Haplotypes_normalized" is the variant_id of that dict    *)
(* and the value under "Drug(s)_normalized" its drug_id.                   *)
(***************************************************************************)
\* dict.get(key)
DictGet(d, key) == IF key \in DOMAIN d THEN d[key] ELSE None

\* dict.get(key, default)
DictGetOr(d, key, default) == IF key \in DOMAIN d THEN d[key] ELSE default

\* d[key] = value on a copy of d
DictPut(d, key, value) ==
    [k \in DOMAIN d \cup {key} |-> IF k = key THEN value ELSE d[k]]

get_normalized_variant_id(annotation) ==
    DictGet(annotation, "Variant/Haplotypes_normalized")

get_normalized_drug_id(annotation) ==
    DictGet(annotation, "Drug(s)_normalized")

\* an expansion that emits the tokens as they were written
expand_one_raw_tokens(ann) ==
    LET tokens == parse_variant_list(DictGet(ann, "Variant/Haplotypes"))
    IN  IF Len(tokens) <= 1 THEN <<ann>>
        ELSE [k \in 1..Len(tokens) |->
                DictPut(DictPut(ann, "Variant/Haplotypes", tokens[k]),
                        "_expanded_from_multi_variant", TRUE)]

\* the records expand_annotations_by_variant emits for one annotation
expand_one(ann) ==
    LET tokens == parse_variant_list(DictGet(ann, "Variant/Haplotypes"))
    IN  IF Len(tokens) <= 1 THEN <<ann>>
        ELSE [k \in 1..Len(tokens) |->
                DictPut(DictPut(ann, "Variant/Haplotypes", normalize_variant(tokens[k])),
                        "_expanded_from_multi_variant", TRUE)]

RECURSIVE expand_annotations_by_variant(_)
expand_annotations_by_variant(annotations) ==
    IF annotations = <<>> THEN <<>>
    ELSE expand_one(Head(annotations)) \o expand_annotations_by_variant(Tail(annotations))

\* (rec.get("Variant/Haplotypes") or "").strip()
raw_variant(rec) == Strip(OrEmpty(DictGet(rec, "Variant/Haplotypes")))

\* one entry of pred_index: (variant_id, rsids, raw_norm, rec)
pred_index_entry(rec) ==
    [variant_id |-> get_normalized_variant_id(rec),
     rsids |-> rsids_of(raw_variant(rec)),
     raw_norm |-> Lower(normalize_variant(raw_variant(rec))),
     rec |-> rec]

build_pred_index(pred_exp) == [i \in 1..Len(pred_exp) |-> pred_index_entry(pred_exp[i])]

\* an aligner that forgets which predictions are claimed
unclaimed_whatever_claimed(idx, claimed) == TRUE

\* "idx not in matched_pred_indices"
unclaimed(idx, claimed) == idx \notin claimed

\* Priority 3 of the three aligners
drug_substring_tier(gt_norm, raw_norm) == IsSubstr(gt_norm, raw_norm)

fa_substring_tier(gt_norm, raw_norm) == IsSubstr(gt_norm, raw_norm)

pheno_substring_tier(gt_norm, raw_norm) ==
    IsSubstr(gt_norm, raw_norm) \/ IsSubstr(raw_norm, gt_norm)

substring_tier(t, gt_norm, raw_norm) ==
    CASE t = "drug" -> drug_substring_tier(gt_norm, raw_norm)
      [] t = "fa" -> fa_substring_tier(gt_norm, raw_norm)
      [] t = "pheno" -> pheno_substring_tier(gt_norm, raw_norm)

\* an aligner without the resolved-id priority
tier1_candidates_none(gt_rec, pred_idx, claimed) == {}

\* the unclaimed predictions each priority's loop would accept
tier1_candidates(gt_rec, pred_idx, claimed) ==
    LET gt_variant_id == get_normalized_variant_id(gt_rec)
    IN  IF Truthy(gt_variant_id)
        THEN { idx \in DOMAIN pred_idx :
                 /\ unclaimed(idx, claimed)
                 /\ Truthy(pred_idx[idx].variant_id)
                 /\ gt_variant_id = pred_idx[idx].variant_id }
        ELSE {}

tier2_candidates(gt_rec, pred_idx, claimed) ==
    LET gt_rs == rsids_of(raw_variant(gt_rec))
    IN  IF gt_rs # {}
        THEN { idx \in DOMAIN pred_idx :
                 unclaimed(idx, claimed) /\ pred_idx[idx].rsids \cap gt_rs # {} }
        ELSE {}

tier3_candidates(t, gt_rec, pred_idx, claimed) ==
    LET gt_norm == Lower(normalize_variant(raw_variant(gt_rec)))
    IN  IF gt_norm # <<>>
        THEN { idx \in DOMAIN pred_idx :
                 unclaimed(idx, claimed) /\ substring_tier(t, gt_norm, pred_idx[idx].raw_norm) }
        ELSE {}

\* an aligner that consults the substring priority before the rsID priority
first_success_substring_first(c1, c2, c3) ==
    IF c1 # {} THEN [idx |-> Min(c1), tier |-> 1]
    ELSE IF c3 # {} THEN [idx |-> Min(c3), tier |-> 3]
    ELSE IF c2 # {} THEN [idx |-> Min(c2), tier |-> 2]
    ELSE [idx |-> 0, tier |-> 0]

\* the first loop that breaks decides: each loop takes the first index it accepts
first_success(c1, c2, c3) ==
    IF c1 # {} THEN [idx |-> Min(c1), tier |-> 1]
    ELSE IF c2 # {} THEN [idx |-> Min(c2), tier |-> 2]
    ELSE IF c3 # {} THEN [idx |-> Min(c3), tier |-> 3]
    ELSE [idx |-> 0, tier |-> 0]

\* body of the alignment loop for one ground-truth record: match_idx and its tier
find_match(t, gt_rec, pred_idx, claimed) ==
    first_success(tier1_candidates(gt_rec, pred_idx, claimed),
                  tier2_candidates(gt_rec, pred_idx, claimed),
                  tier3_candidates(t, gt_rec, pred_idx, claimed))

\* the values disp may take: next(iter(gt_rs)) is any element of the set
display_key_choices(gt_rec) ==
    LET gt_variant_id == get_normalized_variant_id(gt_rec)
    IN  IF Truthy(gt_variant_id) THEN {gt_variant_id}
        ELSE IF rsids_of(raw_variant(gt_rec)) # {} THEN rsids_of(raw_variant(gt_rec))
        ELSE {Lower(normalize_variant(raw_variant(gt_rec)))}

\* "rec in lst": list membership by value
InList(rec, lst) == \E k \in 1..Len(lst) : lst[k] = rec

\* [rec for rec in gt_expanded if rec not in aligned_gt]
collect_unmatched_gt(gt_exp, al_gt) ==
    LET keep(rec) == ~InList(rec, al_gt)
    IN  SelectSeq(gt_exp, keep)

\* [pred_index[i][3] for i in range(len(pred_index)) if i not in matched_pred_indices]
RECURSIVE collect_unmatched_pred(_, _, _)
collect_unmatched_pred(pred_idx, claimed, i) ==
    IF i > Len(pred_idx) THEN <<>>
    ELSE (IF i \in claimed THEN <<>> ELSE <<pred_idx[i].rec>>)
         \o collect_unmatched_pred(pred_idx, claimed, i + 1)

\* str(value): None prints as "None", a text is itself
Str(v) == IF v = None THEN <<"N", "o", "n", "e">> ELSE v

\* str(rec.get(key, "")).strip().lower()
entity_text(rec, key) == Lower(Strip(Str(DictGetOr(rec, key, <<>>))))

\* the Gene + Drug(s) test of the phenotype aligner's second pass
pheno_entity_match(gt_rec, pred_rec) ==
    LET gt_gene == entity_text(gt_rec, "Gene")
        gt_drug == entity_text(gt_rec, "Drug(s)")
        gt_drug_id == get_normalized_drug_id(gt_rec)
        pred_gene == entity_text(pred_rec, "Gene")
        pred_drug == entity_text(pred_rec, "Drug(s)")
        pred_drug_id == get_normalized_drug_id(pred_rec)
        gene_match == gt_gene # <<>> /\ pred_gene # <<>> /\ gt_gene = pred_gene
        drug_match ==
            IF Truthy(gt_drug_id) /\ Truthy(pred_drug_id) THEN gt_drug_id = pred_drug_id
            ELSE IF gt_drug = <<>> /\ pred_drug = <<>> THEN TRUE
            ELSE IF gt_drug # <<>> /\ pred_drug # <<>> THEN gt_drug = pred_drug
            ELSE FALSE
    IN  gene_match /\ drug_match

\* second pass for one ground-truth record: the prediction index it claims, 0 if none
find_entity_match(gt_rec, al_gt, pred_idx, claimed) ==
    LET cands == { idx \in DOMAIN pred_idx :
                     unclaimed(idx, claimed) /\ pheno_entity_match(gt_rec, pred_idx[idx].rec) }
    IN  IF InList(gt_rec, al_gt) THEN 0
        ELSE IF entity_text(gt_rec, "Gene") = <<>> /\ entity_text(gt_rec, "Drug(s)") = <<>> THEN 0
        ELSE IF cands # {} THEN Min(cands)
        ELSE 0

\* f"{gt_gene}+{gt_drug}" if gt_drug else gt_gene
entity_display_key(gt_rec) ==
    IF entity_text(gt_rec, "Drug(s)") # <<>>
    THEN entity_text(gt_rec, "Gene") \o <<"+">> \o entity_text(gt_rec, "Drug(s)")
    ELSE entity_text(gt_rec, "Gene")

(***************************************************************************)
(* Numbers.  A score is an integer number of 1/Scale; a parsed number is a *)
(* fraction <<n, d>> with d > 0, and d = 0 for the floats that are not     *)
(* finite: <<1, 0>> is inf, <<-1, 0>> is -inf and <<0, 0>> is nan.         *)
(***************************************************************************)
Scale == 100 * 100

Abs(x) == IF x < 0 THEN -x ELSE x

RECURSIVE Pow10(_)
Pow10(n) == IF n <= 0 THEN 1 ELSE 10 * Pow10(n - 1)

DigitVal(c) ==
    CASE c = "0" -> 0 [] c = "1" -> 1 [] c = "2" -> 2 [] c = "3" -> 3 [] c = "4" -> 4
      [] c = "5" -> 5 [] c = "6" -> 6 [] c = "7" -> 7 [] c = "8" -> 8 [] c = "9" -> 9

RECURSIVE DigitsToInt(_)
DigitsToInt(s) ==
    IF s = <<>> THEN 0 ELSE 10 * DigitsToInt(SubSeq(s, 1, Len(s) - 1)) + DigitVal(s[Len(s)])

AllDigits(s) == \A k \in 1..Len(s) : s[k] \in Digits

IsFinite(x) == x[2] # 0

\* float(text): None stands for ValueError
float_of(text) ==
    LET \* the digits ipart.fpart with the exponent digits edig; a double holds
        \* magnitudes from about 4.9e-324 to about 1.8e308: what lies above 1e309
        \* becomes inf, what lies below 1e-324 becomes 0.0
        decimal(neg, ipart, fpart, has_exp, eneg, edig) ==
            LET e == IF eneg THEN -DigitsToInt(edig) ELSE DigitsToInt(edig)
                m == DigitsToInt(ipart \o fpart) * (IF neg THEN -1 ELSE 1)
                shift == e - Len(fpart)
                nonzero == { k \in 1..Len(ipart \o fpart) : (ipart \o fpart)[k] # "0" }
                \* 10^(magnitude - 1) <= |value| < 10^magnitude
                magnitude == Len(ipart \o fpart) - Min(nonzero) + 1 + shift
            IN  IF /\ AllDigits(ipart) /\ AllDigits(fpart) /\ Len(ipart) + Len(fpart) > 0
                   /\ (~has_exp \/ (edig # <<>> /\ AllDigits(edig)))
                THEN IF nonzero = {} THEN <<0, 1>>
                     ELSE IF magnitude > 309 THEN <<IF neg THEN -1 ELSE 1, 0>>
                     ELSE IF magnitude < -323 THEN <<0, 1>>
                     ELSE IF shift >= 0 THEN <<m * Pow10(shift), 1>>
                     ELSE <<m, Pow10(-shift)>>
                ELSE None
        \* the mantissa split at its point, the exponent at its sign
        mantissa(neg, mant, has_exp, expo) ==
            LET dot == { k \in 1..Len(mant) : mant[k] = "." }
            IN  decimal(neg,
                        IF dot = {} THEN mant ELSE SubSeq(mant, 1, Min(dot) - 1),
                        IF dot = {} THEN <<>> ELSE SubSeq(mant, Min(dot) + 1, Len(mant)),
                        has_exp,
                        expo # <<>> /\ Head(expo) = "-",
                        IF expo # <<>> /\ Head(expo) \in {"+", "-"} THEN Tail(expo) ELSE expo)
        \* the lower-cased text after its sign
        unsigned(neg, low) ==
            LET epos == { k \in 1..Len(low) : low[k] = "e" }
            IN  IF low \in {<<"i", "n", "f">>, <<"i", "n", "f", "i", "n", "i", "t", "y">>}
                THEN <<IF neg THEN -1 ELSE 1, 0>>
                ELSE IF low = <<"n", "a", "n">> THEN <<0, 0>>
                ELSE mantissa(neg,
                              IF epos = {} THEN low ELSE SubSeq(low, 1, Min(epos) - 1),
                              epos # {},
                              IF epos = {} THEN <<>>
                              ELSE SubSeq(low, Min(epos) + 1, Len(low)))
    IN  unsigned(text # <<>> /\ Head(text) = "-",
                 Lower(IF text # <<>> /\ Head(text) \in {"+", "-"} THEN Tail(text)
                       ELSE text))

\* parse_numeric of None or a text
parse_numeric(value) ==
    IF value = None THEN None
    ELSE float_of(RemoveChars(Strip(value), {",", " ", "$"}))

\* a band test that measures the difference against the prediction
tolerance_band_of_pred(gt_num, pred_num, exact_weight, tolerance_5pct, tolerance_10pct) ==
    LET a == gt_num[1]
        b == gt_num[2]
        c == pred_num[1]
        d == pred_num[2]
        gt_zero == IsFinite(gt_num) /\ a = 0
        pred_zero == IsFinite(pred_num) /\ c = 0
        diff_n == Abs(a * d - c * b)
    IN  IF gt_zero /\ pred_zero THEN Scale
        ELSE IF gt_zero \/ pred_zero THEN 0
        ELSE IF ~IsFinite(gt_num) \/ ~IsFinite(pred_num) THEN 0
        ELSE IF diff_n = 0 THEN exact_weight
        ELSE IF 100 * diff_n <= 5 * b * Abs(c) THEN tolerance_5pct
        ELSE IF 100 * diff_n <= 10 * b * Abs(c) THEN tolerance_10pct
        ELSE 0

\* the result when both arguments parsed, as IEEE arithmetic computes it: with an
\* operand that is not finite no test of the chain succeeds unless the other is 0
tolerance_band(gt_num, pred_num, exact_weight, tolerance_5pct, tolerance_10pct) ==
    LET a == gt_num[1]
        b == gt_num[2]
        c == pred_num[1]
        d == pred_num[2]
        gt_zero == IsFinite(gt_num) /\ a = 0
        pred_zero == IsFinite(pred_num) /\ c = 0
        diff_n == Abs(a * d - c * b)
    IN  IF gt_zero /\ pred_zero THEN Scale
        ELSE IF gt_zero \/ pred_zero THEN 0
        ELSE IF ~IsFinite(gt_num) \/ ~IsFinite(pred_num) THEN 0
        ELSE IF diff_n = 0 THEN exact_weight
        ELSE IF 100 * diff_n <= 5 * d * Abs(a) THEN tolerance_5pct
        ELSE IF 100 * diff_n <= 10 * d * Abs(a) THEN tolerance_10pct
        ELSE 0

\* numeric_tolerance_match from the point where both arguments have been parsed
\* (parse_numeric returns a float argument as it is)
tolerance_of_parsed(gt_num, pred_num, exact_weight, tolerance_5pct, tolerance_10pct) ==
    IF gt_num = None /\ pred_num = None THEN Scale
    ELSE IF gt_num = None \/ pred_num = None THEN 0
    ELSE tolerance_band(gt_num, pred_num, exact_weight, tolerance_5pct, tolerance_10pct)

numeric_tolerance_match(gt_val, pred_val, exact_weight, tolerance_5pct, tolerance_10pct) ==
    tolerance_of_parsed(parse_numeric(gt_val), parse_numeric(pred_val),
                        exact_weight, tolerance_5pct, tolerance_10pct)

\* the lambda the study-parameter schema gives its numeric fields
numeric_field_match(gt_val, pred_val) ==
    numeric_tolerance_match(gt_val, pred_val, Scale, (9 * Scale) \div 10, (8 * Scale) \div 10)

(***************************************************************************)
(* Field evaluators.  Each returns a score in units of 1/Scale.            *)
(***************************************************************************)
exact_match(gt_val, pred_val) ==
    IF gt_val = None /\ pred_val = None THEN Scale
    ELSE IF gt_val = None \/ pred_val = None THEN 0
    ELSE IF Lower(Strip(gt_val)) = Lower(Strip(pred_val)) THEN Scale ELSE 0

category_equal(a, b) ==
    IF a = None /\ b = None THEN Scale
    ELSE IF a = None \/ b = None THEN 0
    ELSE IF CollapseSpaces(Lower(Strip(a))) = CollapseSpaces(Lower(Strip(b))) THEN Scale
    ELSE 0

\* cos is what the embedding path yields for two different strings: the cosine of
\* the two embeddings, or the SequenceMatcher ratio when the model raises
semantic_similarity(gt_val, pred_val, cos) ==
    IF gt_val = None /\ pred_val = None THEN Scale
    ELSE IF gt_val = None \/ pred_val = None THEN 0
    ELSE IF Strip(gt_val) = Strip(pred_val) THEN Scale
    ELSE cos

variant_substring_match(gt_val, pred_val) ==
    IF gt_val = None /\ pred_val = None THEN Scale
    ELSE IF gt_val = None \/ pred_val = None THEN 0
    ELSE LET gt_str == CollapseSpaces(Lower(Strip(gt_val)))
             pred_str == CollapseSpaces(Lower(Strip(pred_val)))
         IN  IF gt_str = <<>> THEN (IF pred_str = <<>> THEN Scale ELSE 0)
             ELSE IF IsSubstr(gt_str, pred_str) THEN Scale ELSE 0

phenotype_group_labels ==
    { <<"p", "o", "o", "r", " ", "m", "e", "t", "a", "b", "o", "l", "i", "z", "e", "r", "s">>,
      <<"i", "n", "t", "e", "r", "m", "e", "d", "i", "a", "t", "e", " ", "m", "e", "t", "a", "b", "o", "l", "i", "z", "e", "r", "s">>,
      <<"e", "x", "t", "e", "n", "s", "i", "v", "e", " ", "m", "e", "t", "a", "b", "o", "l", "i", "z", "e", "r", "s">>,
      <<"u", "l", "t", "r", "a", "-", "r", "a", "p", "i", "d", " ", "m", "e", "t", "a", "b", "o", "l", "i", "z", "e", "r", "s">>,
      <<"i", "n", "t", "e", "r", "m", "e", "d", "i", "a", "t", "e", " ", "a", "c", "t", "i", "v", "i", "t", "y">>,
      <<"r", "e", "d", "u", "c", "e", "d", " ", "f", "u", "n", "c", "t", "i", "o", "n">>,
      <<"n", "o", "r", "m", "a", "l", " ", "f", "u", "n", "c", "t", "i", "o", "n">> }

variant_substring_match_with_phenotype_groups(gt_val, pred_val) ==
    IF gt_val = None /\ pred_val = None THEN Scale
    ELSE IF gt_val = None \/ pred_val = None THEN 0
    ELSE LET gt_str == CollapseSpaces(Lower(Strip(gt_val)))
             pred_str == CollapseSpaces(Lower(Strip(pred_val)))
         IN  IF gt_str \in phenotype_group_labels \/ pred_str \in phenotype_group_labels
             THEN (IF gt_str = pred_str THEN Scale ELSE 0)
             ELSE IF gt_str = <<>> THEN (IF pred_str = <<>> THEN Scale ELSE 0)
             ELSE IF IsSubstr(gt_str, pred_str) THEN Scale ELSE 0

\* the characters of [<>=≤≥]; "LE" and "GE" stand for the two non-ASCII signs
OperatorChars == {"<", ">", "=", "LE", "GE"}

\* parse_p_value: <<operator, value>>, <<None, None>> for a null or blank argument
parse_p_value(pval_str) ==
    LET parsed(t) ==
            LET at == { k \in 1..Len(t) : t[k] \in OperatorChars }
                k0 == Min(at)
                operator ==
                    IF at = {} THEN <<"=">>
                    ELSE IF k0 < Len(t) /\ t[k0 + 1] = "=" THEN <<t[k0], "=">>
                    ELSE <<t[k0]>>
            IN  <<operator, parse_numeric(RemoveChars(t, OperatorChars \cup SpaceChars))>>
    IN  IF pval_str = None \/ Strip(pval_str) = <<>> THEN <<None, None>>
        ELSE parsed(Strip(pval_str))

\* op_map.get(op, op)
op_norm(op) ==
    IF op = <<"<", "=">> THEN <<"LE">>
    ELSE IF op = <<">", "=">> THEN <<"GE">>
    ELSE op

\* a p-value match that scores the magnitudes with the bands of the numeric fields
p_value_match_shared_bands(gt_val, pred_val) ==
    LET match(g, p) ==
            LET operator_score == IF op_norm(g[1]) = op_norm(p[1]) THEN Scale ELSE 0
            IN  IF g[1] = None /\ p[1] = None THEN Scale
                ELSE IF g[1] = None \/ p[1] = None THEN 0
                ELSE (operator_score
                      + tolerance_of_parsed(g[2], p[2], Scale, (9 * Scale) \div 10,
                                            (8 * Scale) \div 10)) \div 2
    IN  match(parse_p_value(gt_val), parse_p_value(pred_val))

p_value_match(gt_val, pred_val) ==
    LET match(g, p) ==
            LET operator_score == IF op_norm(g[1]) = op_norm(p[1]) THEN Scale ELSE 0
                value_score == tolerance_of_parsed(g[2], p[2], Scale, (9 * Scale) \div 10,
                                                   (7 * Scale) \div 10)
            IN  IF g[1] = None /\ p[1] = None THEN Scale
                ELSE IF g[1] = None \/ p[1] = None THEN 0
                ELSE (operator_score + value_score) \div 2
    IN  match(parse_p_value(gt_val), parse_p_value(pred_val))

(***************************************************************************)
(* Drug-list coverage of the drug task.                                    *)
(***************************************************************************)
RECURSIVE MatchCount(_, _)
\* the number of matching characters difflib.SequenceMatcher finds: the longest
\* common block (the earliest in a, then in b), then the same on both sides of it
MatchCount(a, b) ==
    LET blocks == { blk \in (1..Len(a)) \X (1..Len(b)) \X (1..Len(a)) :
                      /\ blk[1] + blk[3] - 1 <= Len(a)
                      /\ blk[2] + blk[3] - 1 <= Len(b)
                      /\ SubSeq(a, blk[1], blk[1] + blk[3] - 1)
                           = SubSeq(b, blk[2], blk[2] + blk[3] - 1) }
        best == CHOOSE blk \in blocks : \A o \in blocks :
                    \/ blk[3] > o[3]
                    \/ (blk[3] = o[3] /\ blk[1] < o[1])
                    \/ (blk[3] = o[3] /\ blk[1] = o[1] /\ blk[2] <= o[2])
    IN  IF blocks = {} THEN 0
        ELSE best[3]
             + MatchCount(SubSeq(a, 1, best[1] - 1), SubSeq(b, 1, best[2] - 1))
             + MatchCount(SubSeq(a, best[1] + best[3], Len(a)),
                          SubSeq(b, best[2] + best[3], Len(b)))

\* SequenceMatcher(None, g, p).ratio() >= 0.85, the ratio being 2*M/T (1.0 when T = 0)
ratio_at_least_85(g, p) ==
    IF Len(g) + Len(p) = 0 THEN TRUE
    ELSE 200 * MatchCount(g, p) >= 85 * (Len(g) + Len(p))

token_match(g, p) == g = p \/ ratio_at_least_85(g, p)

RECURSIVE ReplaceChar(_, _, _)
\* str.replace(c, by) for a one-character c
ReplaceChar(s, c, by) ==
    IF s = <<>> THEN <<>>
    ELSE (IF Head(s) = c THEN by ELSE <<Head(s)>>) \o ReplaceChar(Tail(s), c, by)

normalize_drug_name(name) ==
    CollapseSpaces(ReplaceChar(ReplaceChar(Strip(Lower(name)), "-", <<" ">>),
                               "/", <<" ", "/", " ">>))

WordChars == Digits \cup UpperChars \cup LowerChars \cup {"_"}

\* whether r"\bor\b" (IGNORECASE) matches at index i of s
or_word_at(s, i) ==
    /\ i + 1 <= Len(s)
    /\ LowerChar(s[i]) = "o"
    /\ LowerChar(s[i + 1]) = "r"
    /\ (i = 1 \/ s[i - 1] \notin WordChars)
    /\ (i + 2 > Len(s) \/ s[i + 2] \notin WordChars)

RECURSIVE SplitDrugs(_, _, _)
\* re.split(r",|\bor\b", s, flags=re.IGNORECASE)
SplitDrugs(s, i, start) ==
    IF i > Len(s) THEN <<SubSeq(s, start, Len(s))>>
    ELSE IF s[i] = "," THEN <<SubSeq(s, start, i - 1)>> \o SplitDrugs(s, i + 1, i + 1)
    ELSE IF or_word_at(s, i) THEN <<SubSeq(s, start, i - 1)>> \o SplitDrugs(s, i + 2, i + 2)
    ELSE SplitDrugs(s, i + 1, start)

RECURSIVE Unique(_)
\* the first occurrence of each element, in order
Unique(seq) ==
    IF seq = <<>> THEN <<>>
    ELSE LET front == Unique(SubSeq(seq, 1, Len(seq) - 1))
             last == seq[Len(seq)]
         IN  IF InList(last, front) THEN front ELSE Append(front, last)

parse_drug_list(value) ==
    IF ~Truthy(value) THEN <<>>
    ELSE LET parts == SplitDrugs(value, 1, 1)
             tokens == SelectSeq([k \in 1..Len(parts) |-> normalize_drug_name(parts[k])],
                                 NonEmpty)
         IN  Unique(tokens)

\* (gt.get(op) or pred.get(op) or "or").strip().lower()
coverage_operator(gt, pred) ==
    Lower(Strip(IF Truthy(DictGet(gt, "Multiple drugs And/or"))
                THEN DictGet(gt, "Multiple drugs And/or")
                ELSE IF Truthy(DictGet(pred, "Multiple drugs And/or"))
                THEN DictGet(pred, "Multiple drugs And/or")
                ELSE <<"o", "r">>))

\* a coverage that gives no partial credit under "and"
drugs_coverage_all_or_nothing(gt, pred) ==
    LET gt_tokens == parse_drug_list(DictGet(gt, "Drug(s)"))
        pred_tokens == parse_drug_list(DictGet(pred, "Drug(s)"))
        all_covered == \A i \in 1..Len(gt_tokens) :
                           \E j \in 1..Len(pred_tokens) :
                               token_match(gt_tokens[i], pred_tokens[j])
        any_covered == \E i \in 1..Len(gt_tokens) :
                           \E j \in 1..Len(pred_tokens) :
                               token_match(gt_tokens[i], pred_tokens[j])
    IN  IF gt_tokens = <<>> /\ pred_tokens = <<>> THEN Scale
        ELSE IF gt_tokens = <<>> \/ pred_tokens = <<>> THEN 0
        ELSE IF coverage_operator(gt, pred) = <<"a", "n", "d">>
        THEN (IF all_covered THEN Scale ELSE 0)
        ELSE IF any_covered THEN Scale ELSE 0

drugs_coverage(gt, pred) ==
    LET gt_tokens == parse_drug_list(DictGet(gt, "Drug(s)"))
        pred_tokens == parse_drug_list(DictGet(pred, "Drug(s)"))
        covered == { i \in 1..Len(gt_tokens) :
                       \E j \in 1..Len(pred_tokens) : token_match(gt_tokens[i], pred_tokens[j]) }
        n == Cardinality(covered)
        total == Len(gt_tokens)
    IN  IF gt_tokens = <<>> /\ pred_tokens = <<>> THEN Scale
        ELSE IF gt_tokens = <<>> \/ pred_tokens = <<>> THEN 0
        ELSE IF coverage_operator(gt, pred) = <<"a", "n", "d">>
        THEN (IF n = total THEN Scale ELSE (n * Scale) \div total)
        ELSE IF n > 0 THEN Scale
        ELSE (n * Scale) \div total

(***************************************************************************)
(* Dependency validators.  An issue is the text of its message.            *)
(***************************************************************************)
ISSUE_DIRECTION == <<"D", "i", "r", "e", "c", "t", "i", "o", "n", " ", "o", "f", " ", "e", "f", "f", "e", "c", "t", " ", "r", "e", "q", "u", "i", "r", "e", "s", " ", "'", "A", "s", "s", "o", "c", "i", "a", "t", "e", "d", " ", "w", "i", "t", "h", "'", " ", "s", "t", "a", "t", "u", "s">>
ISSUE_VARIANT_REQUIRED == <<"V", "a", "r", "i", "a", "n", "t", "/", "H", "a", "p", "l", "o", "t", "y", "p", "e", "s", " ", "r", "e", "q", "u", "i", "r", "e", "d", " ", "w", "h", "e", "n", " ", "C", "o", "m", "p", "a", "r", "i", "s", "o", "n", " ", "A", "l", "l", "e", "l", "e", "(", "s", ")", " ", "i", "s", " ", "s", "p", "e", "c", "i", "f", "i", "e", "d">>
ISSUE_DRUG_REQUIRED == <<"D", "r", "u", "g", "(", "s", ")", " ", "f", "i", "e", "l", "d", " ", "s", "h", "o", "u", "l", "d", " ", "b", "e", " ", "p", "r", "e", "s", "e", "n", "t", " ", "w", "h", "e", "n", " ", "M", "u", "l", "t", "i", "p", "l", "e", " ", "d", "r", "u", "g", "s", " ", "A", "n", "d", "/", "o", "r", " ", "i", "s", " ", "s", "p", "e", "c", "i", "f", "i", "e", "d">>
ISSUE_GENE_REQUIRED == <<"G", "e", "n", "e", " ", "f", "i", "e", "l", "d", " ", "r", "e", "q", "u", "i", "r", "e", "d", " ", "w", "h", "e", "n", " ", "G", "e", "n", "e", "/", "g", "e", "n", "e", " ", "p", "r", "o", "d", "u", "c", "t", " ", "i", "s", " ", "s", "p", "e", "c", "i", "f", "i", "e", "d">>
ISSUE_GENE_PRODUCT == <<"G", "e", "n", "e", "/", "g", "e", "n", "e", " ", "p", "r", "o", "d", "u", "c", "t", " ", "r", "e", "c", "o", "m", "m", "e", "n", "d", "e", "d", " ", "w", "h", "e", "n", " ", "F", "u", "n", "c", "t", "i", "o", "n", "a", "l", " ", "t", "e", "r", "m", "s", " ", "i", "s", " ", "s", "p", "e", "c", "i", "f", "i", "e", "d">>
ISSUE_RSID_PREFIX == <<"I", "n", "v", "a", "l", "i", "d", " ", "r", "s", "I", "D", " ", "f", "o", "r", "m", "a", "t", ":", " ">>
ISSUE_STAR_PREFIX == <<"I", "n", "v", "a", "l", "i", "d", " ", "s", "t", "a", "r", " ", "a", "l", "l", "e", "l", "e", " ", "f", "o", "r", "m", "a", "t", ":", " ">>
ISSUE_GENE_PREFIX == <<"I", "n", "v", "a", "l", "i", "d", " ", "g", "e", "n", "e", " ", "n", "a", "m", "e", " ", "f", "o", "r", "m", "a", "t", ":", " ">>

\* the issues a list of optional issues holds: each element is <<condition, text>>
RECURSIVE IssuesOf(_)
IssuesOf(rules) ==
    IF rules = <<>> THEN <<>>
    ELSE (IF Head(rules)[1] THEN <<Head(rules)[2]>> ELSE <<>>) \o IssuesOf(Tail(rules))

validate_drug_dependencies(annotation) ==
    LET direction == DictGet(annotation, "Direction of effect")
        association == DictGet(annotation, "Is/Is Not associated")
        comparison_alleles == DictGet(annotation, "Comparison Allele(s) or Genotype(s)")
        variants == DictGet(annotation, "Variant/Haplotypes")
        multiple_drugs_op == DictGet(annotation, "Multiple drugs And/or")
        drugs == DictGet(annotation, "Drug(s)")
    IN  IssuesOf(<< <<Truthy(direction) /\ association # <<"A", "s", "s", "o", "c", "i", "a", "t", "e", "d", " ", "w", "i", "t", "h">>, ISSUE_DIRECTION>>,
                    <<Truthy(comparison_alleles) /\ ~Truthy(variants), ISSUE_VARIANT_REQUIRED>>,
                    <<Truthy(multiple_drugs_op) /\ ~Truthy(drugs), ISSUE_DRUG_REQUIRED>> >>)

\* rsid_pattern = ^rs\d+$ (IGNORECASE)
is_rsid_format(variant) ==
    /\ Len(variant) >= 3
    /\ Lower(SubSeq(variant, 1, 2)) = <<"r", "s">>
    /\ AllDigits(SubSeq(variant, 3, Len(variant)))

\* star_allele_pattern = ^[A-Z0-9]+\*\d+$
is_star_allele_format(variant) ==
    \E k \in 2..(Len(variant) - 1) :
        /\ variant[k] = "*"
        /\ \A j \in 1..(k - 1) : variant[j] \in UpperChars \cup Digits
        /\ AllDigits(SubSeq(variant, k + 1, Len(variant)))

\* gene_pattern = ^[A-Z0-9]+$
is_gene_format(gene) ==
    gene # <<>> /\ \A j \in 1..Len(gene) : gene[j] \in UpperChars \cup Digits

RECURSIVE variant_format_issues(_)
\* the loop of validate_external_data over the tokens of Variant/Haplotypes
variant_format_issues(tokens) ==
    IF tokens = <<>> THEN <<>>
    ELSE LET variant == Head(tokens)
             here == IF StartsWith(Lower(variant), <<"r", "s">>)
                     THEN (IF is_rsid_format(variant) THEN <<>>
                           ELSE <<ISSUE_RSID_PREFIX \o variant>>)
                     ELSE IF IsSubstr(<<"*">>, variant)
                     THEN (IF is_star_allele_format(variant) THEN <<>>
                           ELSE <<ISSUE_STAR_PREFIX \o variant>>)
                     ELSE <<>>
         IN  here \o variant_format_issues(Tail(tokens))

validate_external_data(annotation) ==
    LET variants == DictGetOr(annotation, "Variant/Haplotypes", <<>>)
        tokens == IF Truthy(variants)
                  THEN SelectSeq([k \in 1..Len(SplitFrom(variants, 1, 1)) |->
                                     Strip(SplitFrom(variants, 1, 1)[k])], NonEmpty)
                  ELSE <<>>
        gene == DictGetOr(annotation, "Gene", <<>>)
    IN  variant_format_issues(tokens)
        \o (IF Truthy(gene) /\ ~is_gene_format(gene) THEN <<ISSUE_GENE_PREFIX \o gene>> ELSE <<>>)

validate_field_dependencies(annotation) ==
    LET gene_product == DictGet(annotation, "Gene/gene product")
        gene == DictGet(annotation, "Gene")
        comparison_alleles == DictGet(annotation, "Comparison Allele(s) or Genotype(s)")
        variants == DictGet(annotation, "Variant/Haplotypes")
        direction == DictGet(annotation, "Direction of effect")
        association == DictGet(annotation, "Is/Is Not associated")
        functional_terms == DictGet(annotation, "Functional terms")
    IN  IssuesOf(<< <<Truthy(gene_product) /\ ~Truthy(gene), ISSUE_GENE_REQUIRED>>,
                    <<Truthy(comparison_alleles) /\ ~Truthy(variants), ISSUE_VARIANT_REQUIRED>>,
                    <<Truthy(direction) /\ association # <<"A", "s", "s", "o", "c", "i", "a", "t", "e", "d", " ", "w", "i", "t", "h">>, ISSUE_DIRECTION>>,
                    <<Truthy(functional_terms) /\ ~Truthy(gene_product), ISSUE_GENE_PRODUCT>> >>)

\* validate_all_dependencies(annotation, None): no study parameters are passed
validate_all_dependencies(annotation) ==
    validate_external_data(annotation) \o validate_field_dependencies(annotation)

\* the issue-to-field mapping of evaluate_drug_annotations
drug_affected_fields(issue, all_fields) ==
    IF IsSubstr(<<"D", "i", "r", "e", "c", "t", "i", "o", "n">>, issue) \/ IsSubstr(<<"A", "s", "s", "o", "c", "i", "a", "t", "e", "d">>, issue)
    THEN {"Direction of effect", "Is/Is Not associated"}
    ELSE IF IsSubstr(<<"V", "a", "r", "i", "a", "n", "t">>, issue) \/ IsSubstr(<<"C", "o", "m", "p", "a", "r", "i", "s", "o", "n">>, issue)
    THEN {"Variant/Haplotypes", "Comparison Allele(s) or Genotype(s)"}
    ELSE IF IsSubstr(<<"D", "r", "u", "g">>, issue) \/ IsSubstr(<<"M", "u", "l", "t", "i", "p", "l", "e", " ", "d", "r", "u", "g", "s">>, issue)
    THEN {"Drug(s)"}
    ELSE all_fields

\* the issue-to-field mapping of _evaluate_functional_analysis_pairs
fa_affected_fields(issue, all_fields) ==
    IF IsSubstr(<<"G", "e", "n", "e">>, issue) \/ IsSubstr(<<"g", "e", "n", "e">>, issue)
    THEN {"Gene", "Gene/gene product"}
    ELSE IF IsSubstr(<<"V", "a", "r", "i", "a", "n", "t">>, issue) \/ IsSubstr(<<"v", "a", "r", "i", "a", "n", "t">>, issue)
    THEN {"Variant/Haplotypes", "Comparison Allele(s) or Genotype(s)"}
    ELSE IF IsSubstr(<<"D", "i", "r", "e", "c", "t", "i", "o", "n">>, issue) \/ IsSubstr(<<"A", "s", "s", "o", "c", "i", "a", "t", "e", "d">>, issue)
    THEN {"Direction of effect", "Is/Is Not associated"}
    ELSE IF IsSubstr(<<"F", "u", "n", "c", "t", "i", "o", "n", "a", "l">>, issue)
    THEN {"Functional terms", "Gene/gene product"}
    ELSE IF IsSubstr(<<"r", "s", "I", "D">>, issue) \/ IsSubstr(<<"s", "t", "a", "r", " ", "a", "l", "l", "e", "l", "e">>, issue)
    THEN {"Variant/Haplotypes"}
    ELSE all_fields

(***************************************************************************)
(* Means and weighted scores.  A mean is the fraction <<sum, count>> of     *)
(* scores in units of 1/Scale; weights are in tenths.                       *)
(***************************************************************************)
RECURSIVE SeqSum(_)
SeqSum(scores) == IF scores = <<>> THEN 0 ELSE Head(scores) + SeqSum(Tail(scores))

\* sum(scores) / len(scores)
mean_of(scores) == <<SeqSum(scores), Len(scores)>>

RAdd(a, b) == IF a[2] = b[2] THEN <<a[1] + b[1], a[2]>>
              ELSE <<a[1] * b[2] + b[1] * a[2], a[2] * b[2]>>

REq(a, b) == a[1] * b[2] = b[1] * a[2]

RLeq(a, b) == a[1] * b[2] <= b[1] * a[2]

RZero == <<0, 1>>

RECURSIVE weighted_sum_over(_, _, _)
\* the loop of compute_weighted_score: sum of score * weight over the fields
weighted_sum_over(fields, field_scores, weight_of) ==
    IF fields = {} THEN RZero
    ELSE LET f == CHOOSE x \in fields : TRUE
             term == <<field_scores[f][1] * weight_of[f], field_scores[f][2]>>
         IN  RAdd(term, weighted_sum_over(fields \ {f}, field_scores, weight_of))

RECURSIVE total_weight_over(_, _)
total_weight_over(fields, weight_of) ==
    IF fields = {} THEN 0
    ELSE LET f == CHOOSE x \in fields : TRUE
         IN  weight_of[f] + total_weight_over(fields \ {f}, weight_of)

\* an overall score that ignores the table
compute_unweighted_score(field_scores, field_weights) ==
    IF DOMAIN field_scores = {} THEN RZero
    ELSE <<weighted_sum_over(DOMAIN field_scores, field_scores,
                             [f \in DOMAIN field_scores |-> 10])[1],
           weighted_sum_over(DOMAIN field_scores, field_scores,
                             [f \in DOMAIN field_scores |-> 10])[2]
           * total_weight_over(DOMAIN field_scores, [f \in DOMAIN field_scores |-> 10])>>

\* field_scores maps a field to a mean; the Optional field_weights is <<>> for None
\* and <<d>> for a dict d, a field without a weight in d counting 1.0
compute_weighted_score(field_scores, field_weights) ==
    LET fields == DOMAIN field_scores
        weight_of == [f \in fields |->
                         IF field_weights = <<>> THEN 10
                         ELSE IF f \in DOMAIN field_weights[1] THEN field_weights[1][f]
                         ELSE 10]
        weighted_sum == weighted_sum_over(fields, field_scores, weight_of)
        total_weight == total_weight_over(fields, weight_of)
    IN  IF fields = {} THEN RZero
        ELSE IF field_weights = <<>>
        THEN <<weighted_sum[1], weighted_sum[2] * total_weight>>
        ELSE IF total_weight > 0 THEN <<weighted_sum[1], weighted_sum[2] * total_weight>>
        ELSE RZero

(***************************************************************************)
(* Field schemas: which evaluator scores which field.                      *)
(***************************************************************************)
Kinds(sem, cat, exact, vsm, vsmg, num, pval, drugs) ==
    [f \in sem \cup cat \cup exact \cup vsm \cup vsmg \cup num \cup pval \cup drugs |->
        IF f \in sem THEN "semantic_similarity"
        ELSE IF f \in cat THEN "category_equal"
        ELSE IF f \in exact THEN "exact_match"
        ELSE IF f \in vsm THEN "variant_substring_match"
        ELSE IF f \in vsmg THEN "variant_substring_match_with_phenotype_groups"
        ELSE IF f \in num THEN "numeric_tolerance_match"
        ELSE IF f \in pval THEN "p_value_match"
        ELSE "drugs_coverage"]

drug_field_evaluators ==
    Kinds({"Gene", "Alleles", "Specialty Population", "Metabolizer types", "PD/PK terms",
           "Population types", "Population Phenotypes or diseases",
           "Comparison Allele(s) or Genotype(s)", "Comparison Metabolizer types"},
          {"Phenotype Category", "Significance", "isPlural", "Is/Is Not associated",
           "Direction of effect", "Multiple drugs And/or",
           "Multiple phenotypes or diseases And/or"},
          {"PMID"}, {}, {"Variant/Haplotypes"}, {}, {}, {"Drug(s)"})

fa_field_evaluators ==
    Kinds({"Gene", "Drug(s)", "Alleles", "Specialty Population", "Assay type",
           "Metabolizer types", "Functional terms", "Gene/gene product", "Cell type",
           "Comparison Allele(s) or Genotype(s)", "Comparison Metabolizer types"},
          {"Phenotype Category", "Significance", "isPlural", "Is/Is Not associated",
           "Direction of effect", "When treated with/exposed to/when assayed with",
           "Multiple drugs And/or"},
          {"PMID"}, {"Variant/Haplotypes"}, {}, {}, {}, {})

CORE_FIELDS ==
    Kinds({"Gene", "Drug(s)", "Alleles", "Phenotype",
           "When treated with/exposed to/when assayed with",
           "Comparison Allele(s) or Genotype(s)"},
          {"Phenotype Category", "Is/Is Not associated", "Direction of effect"},
          {}, {"Variant/Haplotypes"}, {}, {}, {}, {})

DEFAULT_FIELD_WEIGHTS ==
    [f \in DOMAIN CORE_FIELDS |->
        CASE f \in {"Phenotype", "Direction of effect"} -> 20
          [] f \in {"Drug(s)", "Alleles"} -> 15
          [] f \in {"Phenotype Category",
                    "When treated with/exposed to/when assayed with"} -> 5
          [] OTHER -> 10]

\* the fifteen fields of _compute_study_parameters_similarity
study_similarity_evaluators ==
    Kinds({"Characteristics", "Allele Of Frequency In Cases",
           "Allele Of Frequency In Controls"},
          {"Study Type", "Characteristics Type", "Ratio Stat Type",
           "Biogeographical Groups"},
          {}, {}, {},
          {"Study Cases", "Study Controls", "Frequency In Cases", "Frequency In Controls",
           "Ratio Stat", "Confidence Interval Start", "Confidence Interval Stop"},
          {"P Value"}, {})

excluded_fields == {"Study Parameters ID", "Variant Annotation ID"}

study_field_evaluators ==
    [f \in DOMAIN study_similarity_evaluators \cup excluded_fields |->
        IF f \in excluded_fields THEN "exact_match" ELSE study_similarity_evaluators[f]]

field_evaluators(t) ==
    CASE t = "drug" -> drug_field_evaluators
      [] t = "fa" -> fa_field_evaluators
      [] t = "pheno" -> CORE_FIELDS
      [] OTHER -> study_field_evaluators

\* the fields whose scores reach results["field_scores"]
scored_fields(t) ==
    IF t = "study" THEN DOMAIN study_field_evaluators \ excluded_fields
    ELSE DOMAIN field_evaluators(t)

\* one evaluator applied to one field of a pair of records
apply_evaluator(kind, g, p, field, cos) ==
    LET gv == DictGet(g, field)
        pv == DictGet(p, field)
    IN  CASE kind = "semantic_similarity" -> semantic_similarity(gv, pv, cos)
          [] kind = "category_equal" -> category_equal(gv, pv)
          [] kind = "exact_match" -> exact_match(gv, pv)
          [] kind = "variant_substring_match" -> variant_substring_match(gv, pv)
          [] kind = "variant_substring_match_with_phenotype_groups" ->
                 variant_substring_match_with_phenotype_groups(gv, pv)
          [] kind = "numeric_tolerance_match" -> numeric_field_match(gv, pv)
          [] kind = "p_value_match" -> p_value_match(gv, pv)
          [] OTHER -> drugs_coverage(g, p)

\* sample_result["field_scores"] before any penalty
sample_field_scores(evaluators, g, p, cos) ==
    [f \in DOMAIN evaluators |-> apply_evaluator(evaluators[f], g, p, f, cos)]

sample_field_values(evaluators, g, p) ==
    [f \in DOMAIN evaluators |->
        [ground_truth |-> DictGet(g, f), prediction |-> DictGet(p, f)]]

(***************************************************************************)
(* Statistical consistency of a study-parameter record.                    *)
(***************************************************************************)
\* x < y on floats; every comparison with nan is false
FLt(x, y) ==
    IF x = <<0, 0>> \/ y = <<0, 0>> THEN FALSE
    ELSE IF IsFinite(x) /\ IsFinite(y) THEN x[1] * y[2] < y[1] * x[2]
    ELSE IF ~IsFinite(x) /\ ~IsFinite(y) THEN x[1] < y[1]
    ELSE IF ~IsFinite(x) THEN x[1] < 0
    ELSE y[1] > 0

FEq(x, y) ==
    IF x = <<0, 0>> \/ y = <<0, 0>> THEN FALSE
    ELSE IF IsFinite(x) /\ IsFinite(y) THEN x[1] * y[2] = y[1] * x[2]
    ELSE x = y

FLeq(x, y) == FLt(x, y) \/ FEq(x, y)

RECURSIVE NatToDigits(_)
NatToDigits(n) ==
    IF n < 10 THEN <<SubSeq(<<"0", "1", "2", "3", "4", "5", "6", "7", "8", "9">>, n + 1, n + 1)[1]>>
    ELSE NatToDigits(n \div 10) \o NatToDigits(n % 10)

RECURSIVE PadLeft(_, _)
PadLeft(digits, width) == IF Len(digits) >= width THEN digits ELSE PadLeft(<<"0">> \o digits, width)

RECURSIVE TrimZeros(_)
TrimZeros(digits) ==
    IF digits # <<>> /\ digits[Len(digits)] = "0" THEN TrimZeros(SubSeq(digits, 1, Len(digits) - 1))
    ELSE digits

RECURSIVE Log10(_)
Log10(d) == IF d <= 1 THEN 0 ELSE 1 + Log10(d \div 10)

\* the text an f-string gives a float, for the floats written positionally
float_repr(x) ==
    IF x = <<0, 0>> THEN <<"n", "a", "n">>
    ELSE IF ~IsFinite(x) THEN (IF x[1] < 0 THEN <<"-", "i", "n", "f">> ELSE <<"i", "n", "f">>)
    ELSE LET n == Abs(x[1])
             frac == TrimZeros(PadLeft(NatToDigits(n % x[2]), Log10(x[2])))
         IN  (IF x[1] < 0 THEN <<"-">> ELSE <<>>)
             \o NatToDigits(n \div x[2]) \o <<".">>
             \o (IF frac = <<>> \/ x[2] = 1 THEN <<"0">> ELSE frac)

ISSUE_SIGNIFICANT ==
    <<"P", " ", "v", "a", "l", "u", "e", " ", "i", "s", " ", "s", "i", "g", "n", "i", "f", "i", "c", "a", "n", "t", " ", "(", "<", " ", "0", ".", "0", "5", ")", " ", "b", "u", "t", " ", "R", "a", "t", "i", "o", " ", "S", "t", "a", "t", " ", "e", "q", "u", "a", "l", "s", " ", "1", ".", "0", " ", "(", "m", "a", "y", " ", "i", "n", "d", "i", "c", "a", "t", "e", " ", "i", "n", "c", "o", "n", "s", "i", "s", "t", "e", "n", "c", "y", ")">>

issue_ci_order(ci_start_num, ci_stop_num) ==
    <<"C", "o", "n", "f", "i", "d", "e", "n", "c", "e", " ", "I", "n", "t", "e", "r", "v", "a", "l", " ", "S", "t", "a", "r", "t", " ", "(">> \o float_repr(ci_start_num)
    \o <<")", " ", "s", "h", "o", "u", "l", "d", " ", "b", "e", " ", "l", "e", "s", "s", " ", "t", "h", "a", "n", " ", "S", "t", "o", "p", " ", "(">> \o float_repr(ci_stop_num) \o <<")">>

issue_ratio_outside(ratio_stat_num, ci_start_num, ci_stop_num) ==
    <<"R", "a", "t", "i", "o", " ", "S", "t", "a", "t", " ", "(">> \o float_repr(ratio_stat_num)
    \o <<")", " ", "s", "h", "o", "u", "l", "d", " ", "b", "e", " ", "w", "i", "t", "h", "i", "n", " ", "C", "o", "n", "f", "i", "d", "e", "n", "c", "e", " ", "I", "n", "t", "e", "r", "v", "a", "l", " ", "[">> \o float_repr(ci_start_num)
    \o <<",", " ">> \o float_repr(ci_stop_num) \o <<"]">>

issue_frequency(label, freq) ==
    label \o <<" ", "(">> \o float_repr(freq) \o <<")", " ", "s", "h", "o", "u", "l", "d", " ", "b", "e", " ", "b", "e", "t", "w", "e", "e", "n", " ", "0", " ", "a", "n", "d", " ", "1">>

validate_statistical_consistency(annotation) ==
    LET number(key) == parse_numeric(DictGet(annotation, key))
        checks(ratio_stat_type, p, ratio_stat_num, ci_start_num, ci_stop_num,
               freq_cases, freq_controls, study_cases, study_controls) ==
            LET p_op == p[1]
                p_val == p[2]
                has_ci == ci_start_num # None /\ ci_stop_num # None
                outside(freq) == FLt(freq, <<0, 1>>) \/ FLt(<<1, 1>>, freq)
            IN  (IF /\ Truthy(p_op) /\ Truthy(ratio_stat_type) /\ ratio_stat_num # None
                    /\ p_val # None
                    /\ FLt(p_val, <<5, 100>>)
                    /\ FEq(ratio_stat_num, <<1, 1>>)
                 THEN <<ISSUE_SIGNIFICANT>> ELSE <<>>)
                \o (IF has_ci /\ FLeq(ci_stop_num, ci_start_num)
                    THEN <<issue_ci_order(ci_start_num, ci_stop_num)>> ELSE <<>>)
                \o (IF /\ has_ci /\ ratio_stat_num # None
                       /\ (FLt(ratio_stat_num, ci_start_num) \/ FLt(ci_stop_num, ratio_stat_num))
                    THEN <<issue_ratio_outside(ratio_stat_num, ci_start_num, ci_stop_num)>>
                    ELSE <<>>)
                \o (IF freq_cases # None /\ study_cases # None /\ outside(freq_cases)
                    THEN <<issue_frequency(<<"F", "r", "e", "q", "u", "e", "n", "c", "y", " ", "I", "n", " ", "C", "a", "s", "e", "s">>, freq_cases)>> ELSE <<>>)
                \o (IF freq_controls # None /\ study_controls # None /\ outside(freq_controls)
                    THEN <<issue_frequency(<<"F", "r", "e", "q", "u", "e", "n", "c", "y", " ", "I", "n", " ", "C", "o", "n", "t", "r", "o", "l", "s">>, freq_controls)>> ELSE <<>>)
    IN  checks(DictGet(annotation, "Ratio Stat Type"),
               parse_p_value(DictGet(annotation, "P Value")),
               number("Ratio Stat"),
               number("Confidence Interval Start"),
               number("Confidence Interval Stop"),
               number("Frequency In Cases"),
               number("Frequency In Controls"),
               number("Study Cases"),
               number("Study Controls"))

\* the issue-to-field mapping of evaluate_study_parameters
study_affected_fields(issue, all_fields) ==
    IF IsSubstr(<<"V", "a", "r", "i", "a", "n", "t", " ", "A", "n", "n", "o", "t", "a", "t", "i", "o", "n", " ", "I", "D">>, issue) THEN {"Variant Annotation ID"}
    ELSE IF IsSubstr(<<"P", " ", "v", "a", "l", "u", "e">>, Lower(issue)) \/ IsSubstr(<<"r", "a", "t", "i", "o", " ", "s", "t", "a", "t">>, Lower(issue))
    THEN {"P Value", "Ratio Stat", "Ratio Stat Type"}
    ELSE IF IsSubstr(<<"c", "o", "n", "f", "i", "d", "e", "n", "c", "e", " ", "i", "n", "t", "e", "r", "v", "a", "l">>, Lower(issue))
    THEN {"Confidence Interval Start", "Confidence Interval Stop", "Ratio Stat"}
    ELSE IF IsSubstr(<<"f", "r", "e", "q", "u", "e", "n", "c", "y">>, Lower(issue))
    THEN {"Frequency In Cases", "Frequency In Controls", "Study Cases", "Study Controls"}
    ELSE all_fields

(***************************************************************************)
(* Per-sample results and dependency penalties.                            *)
(***************************************************************************)
\* related_annotations and study_parameters keep their default, None
dependency_issues_of(t, pred) ==
    CASE t = "drug" -> validate_drug_dependencies(pred)
      [] t = "fa" -> validate_all_dependencies(pred)
      [] t = "study" -> validate_statistical_consistency(pred)
      [] OTHER -> <<>>

affected_fields(t, issue, all_fields) ==
    CASE t = "drug" -> drug_affected_fields(issue, all_fields)
      [] t = "fa" -> fa_affected_fields(issue, all_fields)
      [] OTHER -> study_affected_fields(issue, all_fields)

penalty_per_issue == (5 * Scale) \div 100

penalty_cap == (30 * Scale) \div 100

\* a penalty that grows with every issue
total_penalty_uncapped(issues) == Len(issues) * penalty_per_issue

\* min(len(dependency_issues) * penalty_per_issue, 0.3)
total_penalty_of(issues) == Min({Len(issues) * penalty_per_issue, penalty_cap})

\* original_score * (1 - total_penalty)
penalized_score_of(original_score, total_penalty) ==
    (original_score * (Scale - total_penalty)) \div Scale

\* one element of results["detailed_results"] of the drug, fa and study evaluators
sample_result(t, sample_id, g, pred, cos) ==
    LET penalized_result(raw, issues, total_penalty, fields_to_penalize) ==
            LET penalized == fields_to_penalize \cap DOMAIN raw
            IN  [sample_id |-> sample_id,
                 field_scores |-> [f \in DOMAIN raw |->
                                      IF f \in penalized
                                      THEN penalized_score_of(raw[f], total_penalty)
                                      ELSE raw[f]],
                 field_values |-> sample_field_values(field_evaluators(t), g, pred),
                 dependency_issues |-> issues,
                 penalty_info |->
                     [total_penalty |-> total_penalty,
                      penalized_fields |->
                          [f \in penalized |->
                              [original_score |-> raw[f],
                               penalized_score |-> penalized_score_of(raw[f], total_penalty),
                               penalty_percentage |-> total_penalty * 100]],
                      issues_by_field |->
                          [f \in fields_to_penalize |->
                              LET names(issue) == f \in affected_fields(t, issue, DOMAIN raw)
                              IN  SelectSeq(issues, names)]]]
        result(raw, issues) ==
            penalized_result(raw, issues,
                             IF issues = <<>> THEN 0 ELSE total_penalty_of(issues),
                             UNION { affected_fields(t, issues[k], DOMAIN raw) :
                                         k \in 1..Len(issues) })
    IN  result(sample_field_scores(field_evaluators(t), g, pred, cos),
               dependency_issues_of(t, pred))

(***************************************************************************)
(* The second pairing of the phenotype evaluator.                          *)
(***************************************************************************)
matching_threshold == <<3 * Scale, 10>>

\* _compare_annotations: the evaluators get the prediction's value first
compare_annotations(pred, gt, weights, cos) ==
    LET compared(field_scores) ==
            [score |-> compute_weighted_score([f \in DOMAIN field_scores |->
                                                  <<field_scores[f], 1>>], <<weights>>),
             field_scores |-> field_scores]
    IN  compared(sample_field_scores(CORE_FIELDS, pred, gt, cos))

RECURSIVE insert_descending(_, _)
\* where list.sort(key=score, reverse=True) leaves an element: after every element
\* whose score is at least its own
insert_descending(sorted, m) ==
    IF sorted = <<>> THEN <<m>>
    ELSE IF RLeq(m.score, Head(sorted).score)
         THEN <<Head(sorted)>> \o insert_descending(Tail(sorted), m)
         ELSE <<m>> \o sorted

\* a list of candidates that is left in the order the double loop met them
keep_encounter_order(matches) == matches

RECURSIVE sort_descending(_)
sort_descending(matches) ==
    IF matches = <<>> THEN <<>>
    ELSE insert_descending(sort_descending(SubSeq(matches, 1, Len(matches) - 1)),
                           matches[Len(matches)])

RECURSIVE candidate_matches(_, _, _, _, _, _)
\* the double loop of _find_best_matches from (pred_idx, gt_idx) on
candidate_matches(predictions, ground_truths, weights, cos, pred_idx, gt_idx) ==
    LET kept(c) ==
            IF RLeq(matching_threshold, c.score)
            THEN <<[pred_idx |-> pred_idx, gt_idx |-> gt_idx, score |-> c.score,
                    field_scores |-> c.field_scores]>>
            ELSE <<>>
    IN  IF pred_idx > Len(predictions) THEN <<>>
        ELSE IF gt_idx > Len(ground_truths)
        THEN candidate_matches(predictions, ground_truths, weights, cos, pred_idx + 1, 1)
        ELSE kept(compare_annotations(predictions[pred_idx], ground_truths[gt_idx],
                                      weights, cos))
             \o candidate_matches(predictions, ground_truths, weights, cos,
                                  pred_idx, gt_idx + 1)

find_best_matches(predictions, ground_truths, weights, cos) ==
    sort_descending(candidate_matches(predictions, ground_truths, weights, cos, 1, 1))

RECURSIVE greedy_pairs(_, _)
\* each prediction keeps its first match; a ground truth may be kept many times
greedy_pairs(all_matches, matched_preds) ==
    IF all_matches = <<>> THEN <<>>
    ELSE LET m == Head(all_matches)
         IN  IF m.pred_idx \in matched_preds
             THEN greedy_pairs(Tail(all_matches), matched_preds)
             ELSE <<m>> \o greedy_pairs(Tail(all_matches), matched_preds \cup {m.pred_idx})

\* one element of results["detailed_results"] of the phenotype evaluator
pheno_sample_result(sample_id, m, al_gt, al_pred) ==
    [sample_id |-> sample_id,
     field_scores |-> m.field_scores,
     field_values |-> sample_field_values(CORE_FIELDS, al_gt[m.gt_idx], al_pred[m.pred_idx]),
     dependency_issues |-> <<>>]

(***************************************************************************)
(* The result dict of an evaluation.                                       *)
(***************************************************************************)
Zeros(n) == [k \in 1..n |-> 0]

field_score_entry(scores) == [mean_score |-> mean_of(scores), scores |-> scores]

field_mean_scores(field_scores) == [f \in DOMAIN field_scores |-> field_scores[f].mean_score]

\* the result every evaluator returns when it scores nothing
empty_result ==
    [total_samples |-> 0, field_scores |-> <<>>, overall_score |-> RZero,
     detailed_results |-> <<>>, aligned_variants |-> <<>>]

unmatched_entries(um_gt, um_pred) ==
    [unmatched_ground_truth |-> um_gt, unmatched_predictions |-> um_pred]

\* the scoring of the aligned pairs by the drug, fa and study evaluators, up to the
\* recomputation of the field scores from the detailed results
evaluate_pairs(t, gt_list, pred_list, cos) ==
    LET scored(detailed) ==
            [total_samples |-> Len(gt_list),
             field_scores |->
                 [f \in scored_fields(t) |->
                     field_score_entry([i \in 1..Len(detailed) |->
                                           detailed[i].field_scores[f]])],
             detailed_results |-> detailed]
    IN  scored([i \in 1..Len(gt_list) |->
                   sample_result(t, i - 1, gt_list[i], pred_list[i], cos)])

\* "Add zero scores for unmatched ground truth annotations"
add_unmatched_zeros(res, aligned_count, num_unmatched_gt) ==
    IF num_unmatched_gt > 0
    THEN [res EXCEPT
             !.field_scores = [f \in DOMAIN res.field_scores |->
                                  field_score_entry(res.field_scores[f].scores
                                                    \o Zeros(num_unmatched_gt))],
             !.total_samples = aligned_count + num_unmatched_gt]
    ELSE res

with_overall_score(res, field_weights) ==
    res @@ [overall_score |->
               compute_weighted_score(field_mean_scores(res.field_scores), field_weights)]

\* an evaluator that also folds the unmatched predictions in as zero scores
evaluate_drug_annotations_counting_predictions(gt_list, pred_list, disp, um_gt, um_pred, field_weights, cos) ==
    IF gt_list = <<>> THEN unmatched_entries(um_gt, um_pred) @@ empty_result
    ELSE with_overall_score(
             add_unmatched_zeros(evaluate_pairs("drug", gt_list, pred_list, cos),
                                 Len(gt_list), Len(um_gt) + Len(um_pred)), field_weights)
         @@ [aligned_variants |-> disp] @@ unmatched_entries(um_gt, um_pred)

evaluate_drug_annotations(gt_list, pred_list, disp, um_gt, um_pred, field_weights, cos) ==
    IF gt_list = <<>> THEN unmatched_entries(um_gt, um_pred) @@ empty_result
    ELSE with_overall_score(
             add_unmatched_zeros(evaluate_pairs("drug", gt_list, pred_list, cos),
                                 Len(gt_list), Len(um_gt)), field_weights)
         @@ [aligned_variants |-> disp] @@ unmatched_entries(um_gt, um_pred)

\* the part of evaluate_fa_from_articles after the alignment
evaluate_fa_from_articles(al_gt, al_pred, disp, um_gt, um_pred, cos) ==
    IF al_gt = <<>>
    THEN [status |-> "no_overlap_after_alignment"] @@ unmatched_entries(um_gt, um_pred)
         @@ empty_result
    ELSE with_overall_score(
             add_unmatched_zeros(evaluate_pairs("fa", al_gt, al_pred, cos),
                                 Len(al_gt), Len(um_gt)), <<>>)
         @@ [aligned_variants |-> disp, status |-> "ok"] @@ unmatched_entries(um_gt, um_pred)

\* evaluate_functional_analysis([gt, pred], field_weights): one pair of dicts, scored
\* as it was written, neither expanded nor aligned
evaluate_functional_analysis(gt, pred, field_weights, cos) ==
    with_overall_score(evaluate_pairs("fa", <<gt>>, <<pred>>, cos), field_weights)

\* the part of PhenotypeAnnotationBenchmark.evaluate after the alignment
evaluate_pheno(al_gt, al_pred, disp, um_gt, um_pred, field_weights, cos) ==
    LET weights == IF field_weights # <<>> THEN field_weights[1] ELSE DEFAULT_FIELD_WEIGHTS
        scored(matched, detailed) ==
            [total_samples |-> Len(matched),
             field_scores |->
                 [f \in DOMAIN CORE_FIELDS |->
                     IF matched = <<>> THEN [mean_score |-> RZero, scores |-> <<>>]
                     ELSE field_score_entry([i \in 1..Len(detailed) |->
                                                detailed[i].field_scores[f]])],
             detailed_results |-> detailed]
        result(matched) ==
            with_overall_score(
                add_unmatched_zeros(
                    scored(matched,
                           [i \in 1..Len(matched) |->
                               pheno_sample_result(i - 1, matched[i], al_gt, al_pred)]),
                    Len(matched), Len(um_gt)),
                <<weights>>)
            @@ [aligned_variants |-> disp] @@ unmatched_entries(um_gt, um_pred)
    IN  IF al_gt = <<>>
        THEN [status |-> "no_overlap_after_alignment"] @@ unmatched_entries(um_gt, um_pred)
             @@ empty_result
        ELSE result(greedy_pairs(find_best_matches(al_pred, al_gt, weights, cos), {}))

evaluate_study_parameters(gt_list, pred_list, disp, um_gt, um_pred, field_weights, cos) ==
    IF gt_list = <<>> THEN unmatched_entries(um_gt, um_pred) @@ empty_result
    ELSE with_overall_score(
             add_unmatched_zeros(evaluate_pairs("study", gt_list, pred_list, cos),
                                 Len(gt_list), Len(um_gt)), field_weights)
         @@ [aligned_variants |-> disp] @@ unmatched_entries(um_gt, um_pred)

\* what each evaluator returns before aligning when a list is empty
missing_input_result(t) ==
    IF t = "fa" THEN [status |-> "missing_var_fa_ann"] @@ empty_result
    ELSE [k \in DOMAIN empty_result \ {"aligned_variants"} |-> empty_result[k]]

(***************************************************************************)
(* The study-parameter aligner.                                            *)
(***************************************************************************)
align_matching_threshold == <<3 * Scale, 10>>

compute_study_parameters_similarity(gt_rec, pred_rec, cos) ==
    LET mean(scores) ==
            <<weighted_sum_over(DOMAIN scores, [f \in DOMAIN scores |-> <<scores[f], 1>>],
                                [f \in DOMAIN scores |-> 1])[1],
              Cardinality(DOMAIN scores)>>
    IN  mean(sample_field_scores(study_similarity_evaluators, gt_rec, pred_rec, cos))

\* pred_by_id[variant_id], as indices: the predictions carrying the id, in list order
pred_by_id(predictions_list, variant_id) ==
    { i \in 1..Len(predictions_list) :
          DictGet(predictions_list[i], "Variant Annotation ID") = variant_id }

\* the prediction the ID pass gives a ground-truth record, 0 for none
id_match(gt_rec, predictions_list, claimed) ==
    LET variant_id == DictGet(gt_rec, "Variant Annotation ID")
        available == { i \in pred_by_id(predictions_list, variant_id) : unclaimed(i, claimed) }
    IN  IF variant_id # None /\ available # {} THEN Min(available) ELSE 0

RECURSIVE pairwise_similarities(_, _, _, _, _, _, _)
\* the double loop over remaining_gt and remaining_pred from (gt_idx, pred_idx) on
pairwise_similarities(gts, preds, done_gt, done_pred, cos, gt_idx, pred_idx) ==
    LET kept(similarity) ==
            IF pred_idx \notin done_pred /\ RLeq(align_matching_threshold, similarity)
            THEN <<[gt_idx |-> gt_idx, pred_idx |-> pred_idx, score |-> similarity]>>
            ELSE <<>>
    IN  IF gt_idx > Len(gts) THEN <<>>
        ELSE IF pred_idx > Len(preds) \/ gt_idx \in done_gt
        THEN pairwise_similarities(gts, preds, done_gt, done_pred, cos, gt_idx + 1, 1)
        ELSE kept(compute_study_parameters_similarity(gts[gt_idx], preds[pred_idx], cos))
             \o pairwise_similarities(gts, preds, done_gt, done_pred, cos,
                                      gt_idx, pred_idx + 1)

id_display_key(gt_rec) == <<"I", "D", ":">> \o DictGet(gt_rec, "Variant Annotation ID")

similarity_display_key(gt_rec) ==
    LET study_type == DictGetOr(gt_rec, "Study Type", <<"U", "n", "k", "n", "o", "w", "n">>)
        chars == DictGetOr(gt_rec, "Characteristics", <<>>)
    IN  Str(study_type)
        \o (IF Truthy(chars) THEN <<":">> \o SubSeq(chars, 1, Min({20, Len(chars)})) ELSE <<>>)

\* ground_truth_list or predictions_list without the matched indices
unmatched_by_index(lst, matched) ==
    LET keep(i) == i \notin matched
        RECURSIVE from(_)
        from(i) == IF i > Len(lst) THEN <<>>
                   ELSE (IF keep(i) THEN <<lst[i]>> ELSE <<>>) \o from(i + 1)
    IN  from(1)

(***************************************************************************)
(* State of one evaluation call.                                           *)
(***************************************************************************)
VARIABLES
    task,                  \* which evaluator runs: "drug", "fa", "pheno", "study"
    gt_list_raw,           \* samples[0]
    pred_list_raw,         \* samples[1]
    field_weights,         \* the Optional field_weights argument
    cosine,                \* <<>> until the embedding collaborator is asked, then
                           \* <<c>> with c what it answers (x 1/Scale)
    pc,                    \* position in the evaluator
    gt_expanded,
    pred_index,
    pos,                   \* index of the loop in progress
    aligned_gt,
    aligned_pred,
    display_keys,
    matched_pred_indices,
    matched_gt_indices,
    similarity_scores,
    pairs,                 \* per aligned pair: gt index, match_idx and the tier that matched
    unmatched_gt,
    unmatched_pred,
    results,
    evaluator,             \* the field evaluator that is called on its own
    gt_val,                \* arguments and return value of that call
    pred_val,
    ret,
    _model,                \* the module-level _model of shared_utils
    constructed,           \* how many SentenceTransformer instances were constructed
    thread_pc,             \* per thread: its position in semantic_similarity
    thread_model,          \* per thread: the model its call got from _get_model()
    all_results,           \* BenchmarkRunner.benchmark_multiple: per document, in the
                           \* order of outputs, <<>> for None or <<its results by task>>
    aggregated             \* <<>> until benchmark_multiple returns, then its
                           \* task_scores, sample_counts and overall_score

inputs == <<task, gt_list_raw, pred_list_raw, field_weights>>

alignment == <<aligned_gt, aligned_pred, display_keys, matched_pred_indices,
               matched_gt_indices, pairs>>

unmatched == <<unmatched_gt, unmatched_pred>>

call == <<evaluator, gt_val, pred_val, ret>>

shared == <<_model, constructed, thread_pc, thread_model>>

runner == <<all_results, aggregated>>

Threads == 1..NumThreads

vars == <<runner, shared, inputs, cosine, pc, gt_expanded, pred_index, pos, alignment, similarity_scores,
          unmatched, results, call>>

VariantTasks == {"drug", "fa", "pheno"}

Tasks == VariantTasks \cup {"study"}

\* what the collaborator may answer: a cosine lies between -1 and 1
CosineValues == {-(Scale \div 4), (9 * Scale) \div 10}

\* the collaborator answers the same for the whole call once it has been asked
CosineChoices == IF cosine = <<>> THEN CosineValues ELSE {cosine[1]}

NoResult == [total_samples |-> 0]

\* evaluate_fa_from_articles and PhenotypeAnnotationBenchmark.evaluate return before
\* aligning when a side is empty; evaluate_drug_annotations does not
returns_on_missing_input(t, gt, pred) ==
    t \in {"fa", "pheno"} /\ (gt = <<>> \/ pred = <<>>)

after_variant_pass(t) == IF t = "pheno" THEN "fallback" ELSE "collect"

MissingInput ==
    /\ pc = "start"
    /\ returns_on_missing_input(task, gt_list_raw, pred_list_raw)
    /\ results' = missing_input_result(task)
    /\ pc' = "done"
    /\ UNCHANGED <<runner, shared, inputs, cosine, gt_expanded, pred_index, pos, alignment,
                   similarity_scores, unmatched, call>>

Expand ==
    /\ pc = "start"
    /\ task \in VariantTasks
    /\ ~returns_on_missing_input(task, gt_list_raw, pred_list_raw)
    /\ gt_expanded' = expand_annotations_by_variant(gt_list_raw)
    /\ pred_index' = build_pred_index(expand_annotations_by_variant(pred_list_raw))
    /\ pos' = 1
    /\ pc' = IF gt_expanded' = <<>> THEN after_variant_pass(task) ELSE "align"
    /\ UNCHANGED <<runner, shared, inputs, cosine, alignment, similarity_scores, unmatched, results, call>>

AlignStep ==
    /\ pc = "align"
    /\ pos <= Len(gt_expanded)
    /\ LET gt_rec == gt_expanded[pos]
           m == find_match(task, gt_rec, pred_index, matched_pred_indices)
       IN  IF m.idx # 0
           THEN /\ aligned_gt' = Append(aligned_gt, gt_rec)
                /\ aligned_pred' = Append(aligned_pred, pred_index[m.idx].rec)
                /\ matched_pred_indices' = matched_pred_indices \cup {m.idx}
                /\ \E disp \in display_key_choices(gt_rec) :
                       display_keys' = Append(display_keys, disp)
                /\ pairs' = Append(pairs, [g |-> pos, p |-> m.idx, tier |-> m.tier])
           ELSE UNCHANGED <<aligned_gt, aligned_pred, matched_pred_indices,
                            display_keys, pairs>>
    /\ pos' = IF pos = Len(gt_expanded) THEN 1 ELSE pos + 1
    /\ pc' = IF pos = Len(gt_expanded) THEN after_variant_pass(task) ELSE "align"
    /\ UNCHANGED <<runner, shared, inputs, cosine, gt_expanded, pred_index, matched_gt_indices,
                   similarity_scores, unmatched, results, call>>

FallbackStep ==
    /\ pc = "fallback"
    /\ pos <= Len(gt_expanded)
    /\ LET gt_rec == gt_expanded[pos]
           idx == find_entity_match(gt_rec, aligned_gt, pred_index, matched_pred_indices)
       IN  IF idx # 0
           THEN /\ aligned_gt' = Append(aligned_gt, gt_rec)
                /\ aligned_pred' = Append(aligned_pred, pred_index[idx].rec)
                /\ matched_pred_indices' = matched_pred_indices \cup {idx}
                /\ display_keys' = Append(display_keys, entity_display_key(gt_rec))
                /\ pairs' = Append(pairs, [g |-> pos, p |-> idx, tier |-> 4])
           ELSE UNCHANGED <<aligned_gt, aligned_pred, matched_pred_indices,
                            display_keys, pairs>>
    /\ pos' = pos + 1
    /\ UNCHANGED <<runner, shared, inputs, cosine, pc, gt_expanded, pred_index, matched_gt_indices,
                   similarity_scores, unmatched, results, call>>

\* the end of a variant aligner: the unmatched lists
Collect ==
    /\ task \in VariantTasks
    /\ IF pc = "fallback" THEN pos > Len(gt_expanded) ELSE pc = "collect"
    /\ unmatched_gt' = collect_unmatched_gt(gt_expanded, aligned_gt)
    /\ unmatched_pred' =
           collect_unmatched_pred(pred_index, matched_pred_indices, 1)
    /\ pc' = "score"
    /\ UNCHANGED <<runner, shared, inputs, cosine, gt_expanded, pred_index, pos, alignment,
                   similarity_scores, results, call>>
StudyStart ==
    /\ pc = "start"
    /\ task = "study"
    /\ IF gt_list_raw = <<>> \/ pred_list_raw = <<>>
       THEN /\ unmatched_gt' = gt_list_raw
            /\ unmatched_pred' = pred_list_raw
            /\ pc' = "score"
            /\ pos' = pos
       ELSE /\ pc' = "id_pass"
            /\ pos' = 1
            /\ UNCHANGED unmatched
    /\ UNCHANGED <<runner, shared, inputs, cosine, gt_expanded, pred_index, alignment, similarity_scores,
                   results, call>>

\* one turn of the loop "Match by Variant Annotation ID first"
StudyIdStep ==
    /\ pc = "id_pass"
    /\ pos <= Len(gt_list_raw)
    /\ LET gt_rec == gt_list_raw[pos]
           pred_idx == id_match(gt_rec, pred_list_raw, matched_pred_indices)
       IN  IF pred_idx # 0
           THEN /\ aligned_gt' = Append(aligned_gt, gt_rec)
                /\ aligned_pred' = Append(aligned_pred, pred_list_raw[pred_idx])
                /\ matched_gt_indices' = matched_gt_indices \cup {pos}
                /\ matched_pred_indices' = matched_pred_indices \cup {pred_idx}
                /\ display_keys' = Append(display_keys, id_display_key(gt_rec))
                /\ pairs' = Append(pairs, [g |-> pos, p |-> pred_idx, tier |-> 1])
           ELSE UNCHANGED alignment
    /\ pos' = IF pos = Len(gt_list_raw) THEN 1 ELSE pos + 1
    /\ pc' = IF pos = Len(gt_list_raw) THEN "similarity" ELSE "id_pass"
    /\ UNCHANGED <<runner, shared, inputs, cosine, gt_expanded, pred_index, similarity_scores, unmatched,
                   results, call>>

\* the pairwise similarities of the remaining records, sorted
StudySimilarity ==
    /\ pc = "similarity"
    /\ LET remaining == /\ \E i \in 1..Len(gt_list_raw) : i \notin matched_gt_indices
                        /\ \E j \in 1..Len(pred_list_raw) : j \notin matched_pred_indices
       IN  IF remaining
           THEN \E cos \in CosineChoices :
                    /\ cosine' = <<cos>>
                    /\ similarity_scores' =
                           sort_descending(pairwise_similarities(gt_list_raw, pred_list_raw,
                               matched_gt_indices, matched_pred_indices, cos, 1, 1))
           ELSE UNCHANGED <<cosine, similarity_scores>>
    /\ pos' = 1
    /\ pc' = "greedy"
    /\ UNCHANGED <<runner, shared, inputs, gt_expanded, pred_index, alignment, unmatched, results, call>>

\* one turn of the loop "Greedily assign matches (one-to-one)"
StudyGreedyStep ==
    /\ pc = "greedy"
    /\ pos <= Len(similarity_scores)
    /\ LET gt_idx == similarity_scores[pos].gt_idx
           pred_idx == similarity_scores[pos].pred_idx
           gt_rec == gt_list_raw[gt_idx]
       IN  IF gt_idx \notin matched_gt_indices /\ unclaimed(pred_idx, matched_pred_indices)
           THEN /\ aligned_gt' = Append(aligned_gt, gt_rec)
                /\ aligned_pred' = Append(aligned_pred, pred_list_raw[pred_idx])
                /\ matched_gt_indices' = matched_gt_indices \cup {gt_idx}
                /\ matched_pred_indices' = matched_pred_indices \cup {pred_idx}
                /\ display_keys' = Append(display_keys, similarity_display_key(gt_rec))
                /\ pairs' = Append(pairs, [g |-> gt_idx, p |-> pred_idx, tier |-> 5])
           ELSE UNCHANGED alignment
    /\ pos' = pos + 1
    /\ UNCHANGED <<runner, shared, inputs, cosine, pc, gt_expanded, pred_index, similarity_scores, unmatched,
                   results, call>>

StudyCollect ==
    /\ pc = "greedy"
    /\ pos > Len(similarity_scores)
    /\ unmatched_gt' = unmatched_by_index(gt_list_raw, matched_gt_indices)
    /\ unmatched_pred' = unmatched_by_index(pred_list_raw, matched_pred_indices)
    /\ pc' = "score"
    /\ UNCHANGED <<runner, shared, inputs, cosine, gt_expanded, pred_index, pos, alignment,
                   similarity_scores, results, call>>

evaluation(t, cos) ==
    CASE t = "drug" ->
             evaluate_drug_annotations(aligned_gt, aligned_pred, display_keys, unmatched_gt,
                                       unmatched_pred, field_weights, cos)
      [] t = "fa" ->
             evaluate_fa_from_articles(aligned_gt, aligned_pred, display_keys, unmatched_gt,
                                       unmatched_pred, cos)
      [] t = "pheno" ->
             evaluate_pheno(aligned_gt, aligned_pred, display_keys, unmatched_gt,
                            unmatched_pred, field_weights, cos)
      [] OTHER ->
             evaluate_study_parameters(aligned_gt, aligned_pred, display_keys, unmatched_gt,
                                       unmatched_pred, field_weights, cos)

\* the evaluator after its aligner has returned
Score ==
    /\ pc = "score"
    /\ IF aligned_gt = <<>>
       THEN /\ results' = evaluation(task, 0)
            /\ UNCHANGED cosine
       ELSE \E cos \in CosineChoices :
                /\ cosine' = <<cos>>
                /\ results' = evaluation(task, cos)
    /\ pc' = "done"
    /\ UNCHANGED <<runner, shared, inputs, gt_expanded, pred_index, pos, alignment, similarity_scores,
                   unmatched, call>>

\* evaluate_functional_analysis called with samples = [gt_list_raw[1], pred_list_raw[1]]
EvaluatePair ==
    /\ pc = "pair"
    /\ \E cos \in CosineChoices :
           /\ cosine' = <<cos>>
           /\ results' = evaluate_functional_analysis(gt_list_raw[1], pred_list_raw[1],
                                                      field_weights, cos)
    /\ pc' = "pair_done"
    /\ UNCHANGED <<runner, shared, inputs, gt_expanded, pred_index, pos, alignment, similarity_scores,
                   unmatched, call>>

\* a call of numeric_tolerance_match with the weights of the numeric fields
NumericCall ==
    /\ pc = "call"
    /\ ret' = <<numeric_field_match(gt_val, pred_val)>>
    /\ pc' = "returned"
    /\ UNCHANGED <<runner, shared, inputs, cosine, gt_expanded, pred_index, pos, alignment,
                   similarity_scores, unmatched, results, evaluator, gt_val,
                   pred_val>>
\* a call of drugs_coverage(gt_list_raw[1], pred_list_raw[1])
CoverageCall ==
    /\ pc = "coverage"
    /\ ret' = <<drugs_coverage(gt_list_raw[1], pred_list_raw[1])>>
    /\ pc' = "covered"
    /\ UNCHANGED <<runner, shared, inputs, cosine, gt_expanded, pred_index, pos, alignment,
                   similarity_scores, unmatched, results, evaluator, gt_val,
                   pred_val>>

\* a value that is not a str: the integer 5.  str(5) is a text no record holds, and
\* so is Int5 where an evaluator reads it through str()
Int5 == <<"<int 5>">>

\* a samples item that is not a list of dicts: the str "x", whose one element is a
\* character and no dict
NotAList == <<[character |-> "x"]>>

isinstance_str(v) == v # None /\ v # Int5

\* re.split(pattern, variants_text) raises TypeError on a truthy value that is no str
parse_variant_list_raises(variants_text) ==
    Truthy(variants_text) /\ ~isinstance_str(variants_text)

\* expand_annotations_by_variant(annotations or []) raises: ann.get on a character of
\* a str, or parse_variant_list on a record's variants
expand_raises(annotations) ==
    \/ annotations = NotAList
    \/ \E i \in 1..Len(annotations) :
           parse_variant_list_raises(DictGet(annotations[i], "Variant/Haplotypes"))

\* drugs_coverage(gt, pred) raises AttributeError: both drug lists hold a token and
\* the operator it then strips is no str
drugs_coverage_raises(gt, pred) ==
    /\ parse_drug_list(DictGet(gt, "Drug(s)")) # <<>>
    /\ parse_drug_list(DictGet(pred, "Drug(s)")) # <<>>
    /\ ~isinstance_str(IF Truthy(DictGet(gt, "Multiple drugs And/or"))
                       THEN DictGet(gt, "Multiple drugs And/or")
                       ELSE IF Truthy(DictGet(pred, "Multiple drugs And/or"))
                       THEN DictGet(pred, "Multiple drugs And/or")
                       ELSE <<"o", "r">>)

\* a record that holds one value, under the key drugs_coverage reads
FieldRecord(value) == [f \in {"Drug(s)"} |-> value]

\* a call of one field evaluator of a schema: evaluator(gt.get(field), pred.get(field)),
\* drugs_coverage(gt, pred) for the drug list
FieldCall ==
    /\ pc = "field"
    /\ IF evaluator = "semantic_similarity" /\ gt_val # None /\ pred_val # None
          /\ Strip(gt_val) # Strip(pred_val)
       THEN \E cos \in CosineValues :
                /\ cosine' = <<cos>>
                /\ ret' = <<semantic_similarity(gt_val, pred_val, cos)>>
       ELSE /\ ret' = <<apply_evaluator(evaluator, FieldRecord(gt_val),
                                        FieldRecord(pred_val), "Drug(s)", 0)>>
            /\ UNCHANGED cosine
    /\ pc' = "field_returned"
    /\ UNCHANGED <<runner, shared, inputs, gt_expanded, pred_index, pos, alignment, similarity_scores,
                   unmatched, results, evaluator, gt_val, pred_val>>

(***************************************************************************)
(* Inputs of the model: the texts and records the lists are drawn from.    *)
(***************************************************************************)
T_rs1 == <<"r", "s", "1">>
T_rs12 == <<"r", "s", "1", "2">>
T_multi == <<"r", "s", "1", ",", " ", "R", "S", "2">>
T_star == <<"C", "Y", "P", "2", "D", "6", "*", "4">>
T_star_short == <<"*", "4">>
T_va1 == <<"P", "A", "1", "6", "6">>
T_gene == <<"C", "Y", "P", "2", "D", "6">>
T_drug == <<"c", "o", "d", "e", "i", "n", "e">>
T_assoc == <<"A", "s", "s", "o", "c", "i", "a", "t", "e", "d", " ", "w", "i", "t", "h">>
T_dir == <<"i", "n", "c", "r", "e", "a", "s", "e", "d">>

\* a dict with the given Variant/Haplotypes, variant_id, Gene, Drug(s) and
\* Direction of effect, and a null Is/Is Not associated
AnnDir(var, vid, gene, drug, dir) ==
    [k \in {"Variant/Haplotypes", "Variant/Haplotypes_normalized", "Gene", "Drug(s)",
            "Direction of effect", "Is/Is Not associated"} |->
        CASE k = "Variant/Haplotypes" -> var
          [] k = "Variant/Haplotypes_normalized" -> vid
          [] k = "Gene" -> gene
          [] k = "Drug(s)" -> drug
          [] k = "Direction of effect" -> dir
          [] OTHER -> None]

Ann(var, vid, gene, drug) == AnnDir(var, vid, gene, drug, None)

GtVocab ==
    { Ann(T_rs1, None, T_gene, T_drug),
      Ann(T_star, T_va1, T_gene, None),
      Ann(T_multi, None, T_gene, T_drug),
      Ann(None, None, T_gene, T_drug) }

PredVocab ==
    { Ann(T_rs1, None, T_gene, T_drug),
      AnnDir(T_rs12, T_va1, T_gene, T_drug, T_dir),
      Ann(T_star_short, None, Lower(T_gene), None),
      Ann(T_multi, None, None, T_drug) }

T_malformed == <<"r", "s", "1", "a", ",", " ", "r", "s", "1", "b", ",", " ", "*", "4", ",", " ", "*", "5", ",", " ", "r", "s", "1", "c">>

\* the predictions of the single-pair entry point: one of them names five malformed
\* variants and a lower-case gene and sets a direction without an association
PairPredVocab ==
    PredVocab \cup { AnnDir(T_malformed, None, Lower(T_gene), T_drug, T_dir) }

\* a study-parameter dict
Study(vid, type, cases, chars, pvalue, ratio, ci_start, ci_stop, freq) ==
    [k \in {"Variant Annotation ID", "Study Type", "Study Cases", "Characteristics",
            "P Value", "Ratio Stat Type", "Ratio Stat", "Confidence Interval Start",
            "Confidence Interval Stop", "Frequency In Cases"} |->
        CASE k = "Variant Annotation ID" -> vid
          [] k = "Study Type" -> type
          [] k = "Study Cases" -> cases
          [] k = "Characteristics" -> chars
          [] k = "P Value" -> pvalue
          [] k = "Ratio Stat Type" -> IF ratio = None THEN None ELSE <<"O", "R">>
          [] k = "Ratio Stat" -> ratio
          [] k = "Confidence Interval Start" -> ci_start
          [] k = "Confidence Interval Stop" -> ci_stop
          [] OTHER -> freq]

\* a study-parameter dict none of whose scored fields is null
FullStudy(vid, cases) ==
    [k \in DOMAIN study_field_evaluators |->
        CASE k = "Variant Annotation ID" -> vid
          [] k = "Study Parameters ID" -> <<"7">>
          [] k = "Study Cases" -> cases
          [] k = "P Value" -> <<"=", " ", "0", ".", "2">>
          [] study_field_evaluators[k] = "numeric_tolerance_match" -> <<"0", ".", "5">>
          [] OTHER -> <<"c", "o", "h", "o", "r", "t">>]

GtStudyVocab ==
    { Study(T_va1, <<"c", "o", "h", "o", "r", "t">>, <<"1", "0", "0">>, <<"a", "d", "u", "l", "t", "s">>, <<"<", " ", "0", ".", "0", "5">>, None, None, None, None),
      Study(None, <<"c", "o", "h", "o", "r", "t">>, <<"1", "0", "0">>, <<"a", "d", "u", "l", "t", "s">>, None, <<"1", ".", "5">>, <<"1", ".", "0">>, <<"2", ".", "0">>, None),
      FullStudy(None, <<"1", ",", "0", "0", "0">>) }

PredStudyVocab ==
    { Study(T_va1, <<"C", "o", "h", "o", "r", "t">>, <<"1", "0", "5">>, <<"c", "h", "i", "l", "d", "r", "e", "n">>, <<"<", "0", ".", "0", "5">>, <<"1", ".", "0">>, None, None, None),
      Study(None, <<"c", "o", "h", "o", "r", "t">>, <<"1", "0", "0">>, <<"a", "d", "u", "l", "t", "s">>, None, <<"1", ".", "5">>, <<"2", ".", "0">>, <<"1", ".", "0">>, <<"1", ".", "5">>),
      Study(None, None, None, None, None, None, None, None, None) }

\* the texts numeric_tolerance_match is called with
NumericTexts ==
    { None, <<"a", "b", "c">>, <<"0">>, <<"0", ".", "0">>, <<"1", "0", "0">>, <<"1", "e", "2">>, <<"$", "1", ",", "0", "0">>, <<"1", "0", "5">>, <<"9", "5">>, <<"1", "0", "5", ".", "1">>,
      <<"1", "1", "0">>, <<"9", "0">>, <<"1", "1", "1">>, <<"-", "1", "0", "0">>, <<"-", "1", "0", "5">>, <<"-", "8", "9">>, <<"1", "e", "3">>, <<"1", ",", "0", "5", "0">>,
      <<"1", "e", "9", "9", "9">>, <<"i", "n", "f">>, <<"1", "e", "-", "9", "9", "9">>, <<"1", "0", "4">>, <<"1", "3", "0">> }

\* a record with a drug list and the operator that combines it
DrugAnn(drugs, operator) ==
    [k \in {"Drug(s)", "Multiple drugs And/or"} |->
        IF k = "Drug(s)" THEN drugs ELSE operator]

\* a drug record with its variants, its drug list and the operator of the list
SampleAnn(var, drug, operator) ==
    DictPut(Ann(var, None, T_gene, drug), "Multiple drugs And/or", operator)

\* two sound records, a record whose operator is no str, one whose variants are no
\* str, and one whose operator is no str but has no drug list beside it
SampleVocab ==
    { SampleAnn(T_rs1, T_drug, None),
      SampleAnn(T_star, T_drug, <<"a", "n", "d">>),
      SampleAnn(T_rs1, T_drug, Int5),
      SampleAnn(Int5, T_drug, None),
      SampleAnn(T_star, None, Int5) }

DrugTexts ==
    { None, <<"a", "s", "p", "i", "r", "i", "n">>, <<"a", "s", "p", "i", "r", "i", "n", ",", " ", "w", "a", "r", "f", "a", "r", "i", "n">>, <<"W", "a", "r", "f", "a", "r", "i", "n", " ", "o", "r", " ", "a", "s", "p", "r", "i", "n">>, <<"c", "o", "d", "e", "i", "n", "e">>,
      <<"a", "s", "p", "i", "r", "i", "n", ",", " ", "w", "a", "r", "f", "a", "r", "i", "n", ",", " ", "c", "o", "d", "e", "i", "n", "e">> }

OperatorTexts == { None, <<"a", "n", "d">>, <<"o", "r">>, <<" ", "A", "N", "D", " ">> }

\* the values one field of the two records may hold
FieldTexts ==
    { None, <<>>, <<"a", "b", "c">>, <<"0", ".", "0", "5">>, <<"<", "0", ".", "0", "5">>, <<"<", " ", "0", ".", "0", "5", "2">>, <<"<", "=", "0", ".", "0", "5">>, <<"=", "0", ".", "0", "5", "4">>, <<">", "0", ".", "0", "6">>,
      <<"1", "e", "9", "9", "9">> }

\* a field_weights table, in tenths: it doubles two fields, leaves two fields out of
\* the score and names no other field
WeightTable ==
    [f \in {"Gene", "P Value", "Drug(s)", "Study Cases"} |->
        IF f \in {"Gene", "P Value"} THEN 20 ELSE 0]

\* the lists of at most n elements of S
RECURSIVE ListsUpTo(_, _)
ListsUpTo(S, n) ==
    IF n = 0 THEN {<<>>}
    ELSE ListsUpTo(S, n - 1)
         \cup { Append(l, x) : l \in { m \in ListsUpTo(S, n - 1) : Len(m) = n - 1 }, x \in S }

(***************************************************************************)
(* Specifications.                                                         *)
(***************************************************************************)
Idle ==
    /\ cosine = <<>>
    /\ gt_expanded = <<>>
    /\ pred_index = <<>>
    /\ pos = 0
    /\ aligned_gt = <<>>
    /\ aligned_pred = <<>>
    /\ display_keys = <<>>
    /\ matched_pred_indices = {}
    /\ matched_gt_indices = {}
    /\ similarity_scores = <<>>
    /\ pairs = <<>>
    /\ unmatched_gt = <<>>
    /\ unmatched_pred = <<>>
    /\ results = NoResult
    /\ ret = <<>>
    /\ _model = None
    /\ constructed = 0
    /\ thread_pc = [t \in Threads |-> "idle"]
    /\ thread_model = [t \in Threads |-> None]
    /\ all_results = <<>>
    /\ aggregated = <<>>

\* an evaluator is called with two lists, or evaluate_functional_analysis with one
\* ground-truth dict and one predicted dict; field_weights is None or a table
\* (evaluate_fa_from_articles takes no field_weights)
Init ==
    /\ \/ /\ task \in Tasks
          /\ gt_list_raw \in
                 ListsUpTo(IF task = "study" THEN GtStudyVocab ELSE GtVocab, MaxGt)
          /\ pred_list_raw \in
                 ListsUpTo(IF task = "study" THEN PredStudyVocab ELSE PredVocab, MaxPred)
          /\ field_weights \in IF task = "fa" \/ Len(pred_list_raw) > MaxWeightedPred
                                THEN {<<>>}
                                ELSE {<<>>, <<WeightTable>>}
          /\ pc = "start"
       \/ /\ task = "fa"
          /\ gt_list_raw \in { <<gt>> : gt \in GtVocab }
          /\ pred_list_raw \in { <<pred>> : pred \in PairPredVocab }
          /\ field_weights \in {<<>>, <<WeightTable>>}
          /\ pc = "pair"
    /\ evaluator = "none"
    /\ gt_val = None
    /\ pred_val = None
    /\ Idle

Next ==
    \/ MissingInput
    \/ Expand
    \/ AlignStep
    \/ FallbackStep
    \/ Collect
    \/ StudyStart
    \/ StudyIdStep
    \/ StudySimilarity
    \/ StudyGreedyStep
    \/ StudyCollect
    \/ Score
    \/ EvaluatePair

Spec == Init /\ [][Next]_vars

\* numeric_tolerance_match is called with two values
InitNumeric ==
    /\ task = "study"
    /\ gt_list_raw = <<>>
    /\ pred_list_raw = <<>>
    /\ field_weights = <<>>
    /\ pc = "call"
    /\ evaluator = "numeric_tolerance_match"
    /\ gt_val \in NumericTexts
    /\ pred_val \in NumericTexts
    /\ Idle

NextNumeric == NumericCall

SpecNumeric == InitNumeric /\ [][NextNumeric]_vars
\* drugs_coverage is called with two records
InitCoverage ==
    /\ task = "drug"
    /\ gt_list_raw \in { <<DrugAnn(d, o)>> : d \in DrugTexts, o \in OperatorTexts }
    /\ pred_list_raw \in { <<DrugAnn(d, o)>> : d \in DrugTexts, o \in OperatorTexts }
    /\ field_weights = <<>>
    /\ pc = "coverage"
    /\ evaluator = "drugs_coverage"
    /\ gt_val = None
    /\ pred_val = None
    /\ Idle

NextCoverage == CoverageCall

SpecCoverage == InitCoverage /\ [][NextCoverage]_vars

\* one field evaluator is called with two values
InitField ==
    /\ task = "study"
    /\ gt_list_raw = <<>>
    /\ pred_list_raw = <<>>
    /\ field_weights = <<>>
    /\ pc = "field"
    /\ evaluator \in { study_field_evaluators[f] : f \in DOMAIN study_field_evaluators }
                     \cup { drug_field_evaluators[f] : f \in DOMAIN drug_field_evaluators }
                     \cup { CORE_FIELDS[f] : f \in DOMAIN CORE_FIELDS }
    /\ gt_val \in FieldTexts
    /\ pred_val \in FieldTexts
    /\ Idle

NextField == FieldCall

SpecField == InitField /\ [][NextField]_vars

(***************************************************************************)
(* Properties of the aligners.                                             *)
(***************************************************************************)
\* the prediction the aligner's index idx stands for
PredAt(idx) == IF task = "study" THEN pred_list_raw[idx] ELSE pred_index[idx].rec

GtAt(idx) == IF task = "study" THEN gt_list_raw[idx] ELSE gt_expanded[idx]

AlignerReturned == pc \in {"score", "done"} /\ ~returns_on_missing_input(task, gt_list_raw, pred_list_raw)

\* C1: in every aligner, after every step of its loops, the prediction indices of
\* the aligned pairs are pairwise distinct: no predicted record is paired with more
\* than one ground-truth record.
C1_PredictionClaimedOnce ==
    /\ Len(pairs) = Len(aligned_pred)
    /\ Len(pairs) = Len(aligned_gt)
    /\ \A i \in 1..Len(pairs) :
           /\ aligned_pred[i] = PredAt(pairs[i].p)
           /\ aligned_gt[i] = GtAt(pairs[i].g)
    /\ \A i, j \in 1..Len(pairs) : i # j => pairs[i].p # pairs[j].p

\* two equal ground-truth records have been aligned, each to its own prediction
C1_Witness ==
    /\ Len(pairs) >= 2
    /\ aligned_gt[1] = aligned_gt[2]
    /\ pairs[1].p # pairs[2].p

\* C2: when a variant aligner returns, aligned_gt and unmatched_gt together are the
\* expanded ground-truth list as a multiset: every expanded record occurs in the two
\* lists together exactly as often as in the expanded list, equal records included.
C2_GroundTruthPartition ==
    (task \in VariantTasks /\ AlignerReturned) =>
        LET Count(rec, lst) == Cardinality({ k \in 1..Len(lst) : lst[k] = rec })
        IN  /\ \A k \in 1..Len(gt_expanded) :
                   Count(gt_expanded[k], aligned_gt) + Count(gt_expanded[k], unmatched_gt)
                       = Count(gt_expanded[k], gt_expanded)
            /\ Len(aligned_gt) + Len(unmatched_gt) = Len(gt_expanded)

\* C3 as the claim states it: when a variant aligner returns, every ground-truth
\* record that carries a resolved id some prediction carries too is aligned to a
\* prediction carrying that id, whatever was processed before it.
C3_ResolvedIdAlwaysAligned ==
    (task \in VariantTasks /\ AlignerReturned) =>
        \A k \in 1..Len(gt_expanded) :
            LET X == get_normalized_variant_id(gt_expanded[k])
            IN  (Truthy(X) /\ \E j \in DOMAIN pred_index : pred_index[j].variant_id = X)
                    => \E i \in 1..Len(pairs) :
                           pairs[i].g = k /\ pred_index[pairs[i].p].variant_id = X

\* C3 amended: when the loop reaches a ground-truth record that carries a resolved id
\* X while some still unclaimed prediction carries X, the record is aligned in that
\* step to an unclaimed prediction carrying X, whatever their raw variant texts and
\* whatever the rsID and substring priorities would pair it with.
C3_ResolvedIdPriority ==
    [][ (pc = "align" /\ pos <= Len(gt_expanded)) =>
          LET X == get_normalized_variant_id(gt_expanded[pos])
              carrying == { j \in DOMAIN pred_index :
                              j \notin matched_pred_indices /\ pred_index[j].variant_id = X }
          IN  (Truthy(X) /\ carrying # {}) =>
                  /\ Len(pairs') = Len(pairs) + 1
                  /\ pairs'[Len(pairs')].g = pos
                  /\ pairs'[Len(pairs')].p \in carrying
                  /\ aligned_gt' = Append(aligned_gt, gt_expanded[pos])
                  /\ get_normalized_variant_id(aligned_pred'[Len(aligned_pred')]) = X ]_vars

\* a record was aligned by its resolved id although an earlier prediction, left
\* unclaimed, satisfies the substring priority and the raw variant texts differ
C3_Witness ==
    \E i \in 1..Len(pairs) :
        /\ task \in VariantTasks
        /\ pairs[i].tier = 1
        /\ raw_variant(aligned_gt[i]) # raw_variant(aligned_pred[i])
        /\ \E j \in 1..(pairs[i].p - 1) :
               /\ j \notin matched_pred_indices
               /\ substring_tier(task, Lower(normalize_variant(raw_variant(aligned_gt[i]))),
                                 pred_index[j].raw_norm)
\* C4: the loop takes the ground-truth records in list order; for each it consults
\* the priorities in the order resolved id, rsID intersection, substring containment,
\* takes the lowest-index unclaimed prediction of the first priority that has one,
\* and consults a lower priority only when every higher one found none.
C4_TierOrder ==
    [][ (pc = "align" /\ pos <= Len(gt_expanded)) =>
          LET gt_rec == gt_expanded[pos]
              gt_id == get_normalized_variant_id(gt_rec)
              gt_rs == rsids_of(raw_variant(gt_rec))
              gt_norm == Lower(normalize_variant(raw_variant(gt_rec)))
              free == { j \in DOMAIN pred_index : j \notin matched_pred_indices }
              by_id == { j \in free : Truthy(gt_id) /\ pred_index[j].variant_id = gt_id }
              by_rs == { j \in free : pred_index[j].rsids \cap gt_rs # {} }
              by_sub == { j \in free : gt_norm # <<>>
                                       /\ substring_tier(task, gt_norm, pred_index[j].raw_norm) }
              added(j, tier) == pairs' = Append(pairs, [g |-> pos, p |-> j, tier |-> tier])
          IN  /\ IF by_id # {} THEN added(Min(by_id), 1)
                 ELSE IF by_rs # {} THEN added(Min(by_rs), 2)
                 ELSE IF by_sub # {} THEN added(Min(by_sub), 3)
                 ELSE pairs' = pairs
              /\ IF pos < Len(gt_expanded) THEN pc' = "align" /\ pos' = pos + 1
                 ELSE pc' # "align" ]_vars

\* a record was aligned by rsID to a later prediction although an earlier unclaimed
\* one satisfies the substring priority, and another one by substring alone
C4_Witness ==
    /\ task \in VariantTasks
    /\ \E i \in 1..Len(pairs) :
           /\ pairs[i].tier = 2
           /\ \E j \in 1..(pairs[i].p - 1) :
                  /\ \A k \in 1..i : pairs[k].p # j
                  /\ substring_tier(task, Lower(normalize_variant(raw_variant(aligned_gt[i]))),
                                    pred_index[j].raw_norm)
    /\ \E i \in 1..Len(pairs) : pairs[i].tier = 3

\* C5 as the claim states it: in the substring priority of every variant aligner a
\* ground-truth record is paired when its normalized variant string contains, or is
\* contained in, that of an unclaimed prediction; so when the aligner returns no
\* unaligned ground-truth record and unclaimed prediction are left with non-empty
\* normalized variant strings one of which contains the other.
C5_ContainmentEitherDirection ==
    (task \in VariantTasks /\ AlignerReturned) =>
        \A k \in 1..Len(gt_expanded) : \A j \in DOMAIN pred_index :
            LET gt_norm == Lower(normalize_variant(raw_variant(gt_expanded[k])))
                raw_norm == pred_index[j].raw_norm
            IN  (/\ \A i \in 1..Len(pairs) : pairs[i].g # k /\ pairs[i].p # j
                 /\ gt_norm # <<>>
                 /\ raw_norm # <<>>)
                    => ~(IsSubstr(gt_norm, raw_norm) \/ IsSubstr(raw_norm, gt_norm))

\* C6: expansion replaces a record whose variant field parses into n > 1 tokens by n
\* copies, one per token in order, each with a single-token variant field (the
\* normalized token), every other field unchanged and the expanded tag set; a record
\* with at most one token passes through unchanged; the copies are aligned one by one.
C6_Expansion ==
    (task \in VariantTasks /\ pc \notin {"start", "call", "returned", "pair", "pair_done"}
     /\ ~returns_on_missing_input(task, gt_list_raw, pred_list_raw)) =>
        LET tokens_of(rec) == parse_variant_list(DictGet(rec, "Variant/Haplotypes"))
            width(rec) == IF Len(tokens_of(rec)) > 1 THEN Len(tokens_of(rec)) ELSE 1
            RECURSIVE before(_, _)
            before(raw, i) == IF i <= 1 THEN 0 ELSE before(raw, i - 1) + width(raw[i - 1])
            is_copy(c, rec, tok) ==
                /\ DOMAIN c = DOMAIN rec \cup {"_expanded_from_multi_variant"}
                /\ c["_expanded_from_multi_variant"] = TRUE
                /\ c["Variant/Haplotypes"] = normalize_variant(tok)
                /\ Len(parse_variant_list(c["Variant/Haplotypes"])) = 1
                /\ \A key \in DOMAIN rec \ {"Variant/Haplotypes", "_expanded_from_multi_variant"} :
                       c[key] = rec[key]
            expands(raw, out) ==
                /\ Len(out) = before(raw, Len(raw) + 1)
                /\ \A i \in 1..Len(raw) :
                       IF Len(tokens_of(raw[i])) <= 1
                       THEN out[before(raw, i) + 1] = raw[i]
                       ELSE \A t \in 1..Len(tokens_of(raw[i])) :
                                is_copy(out[before(raw, i) + t], raw[i], tokens_of(raw[i])[t])
        IN  /\ expands(gt_list_raw, gt_expanded)
            /\ expands(pred_list_raw, [j \in DOMAIN pred_index |-> pred_index[j].rec])

\* the two copies of one multi-variant ground-truth record have each claimed a
\* different prediction
C6_Witness ==
    /\ task \in VariantTasks
    /\ Len(gt_list_raw) = 1
    /\ Len(gt_expanded) = 2
    /\ Len(pairs) = 2
    /\ pairs[1].g = 1 /\ pairs[2].g = 2
    /\ pairs[1].p # pairs[2].p
    /\ Lower(gt_expanded[2]["Variant/Haplotypes"]) = gt_expanded[2]["Variant/Haplotypes"]
(***************************************************************************)
(* Properties of the evaluation results.                                   *)
(***************************************************************************)
\* a score, and a mean <<sum, count>>, between 0.0 and 1.0
InUnit(score) == 0 <= score /\ score <= Scale

MeanInUnit(mean) == 0 <= mean[1] /\ mean[1] <= mean[2] * Scale

\* C7 as the claim states it: every field score an evaluation returns (each
\* per-sample field score before and after penalty, each entry of a field's score
\* list, each field mean) lies in [0,1], whatever the embedding collaborator answers.
C7_ScoresInUnitInterval ==
    pc = "done" =>
        /\ \A f \in DOMAIN results.field_scores :
               /\ MeanInUnit(results.field_scores[f].mean_score)
               /\ \A k \in 1..Len(results.field_scores[f].scores) :
                      InUnit(results.field_scores[f].scores[k])
        /\ \A i \in 1..Len(results.detailed_results) :
               LET d == results.detailed_results[i]
               IN  /\ \A f \in DOMAIN d.field_scores : InUnit(d.field_scores[f])
                   /\ "penalty_info" \in DOMAIN d =>
                          \A f \in DOMAIN d.penalty_info.penalized_fields :
                              /\ InUnit(d.penalty_info.penalized_fields[f].original_score)
                              /\ InUnit(d.penalty_info.penalized_fields[f].penalized_score)

\* C8 as the claim states it: in the result of an evaluation whose aligner returned
\* some ground-truth record, aligned or unmatched, every schema field's score list is
\* the penalized score of each aligned pair followed by one 0.0 per unmatched
\* ground-truth record, its mean is the mean of that list, and total_samples is the
\* number of aligned pairs plus the number of unmatched ground-truth records; also
\* when no pair was aligned.
C8_ScoreListsCoverGroundTruth ==
    (pc = "done" /\ AlignerReturned /\ Len(aligned_gt) + Len(unmatched_gt) > 0) =>
        /\ results.total_samples = Len(aligned_gt) + Len(unmatched_gt)
        /\ Len(results.detailed_results) = Len(aligned_gt)
        /\ DOMAIN results.field_scores = scored_fields(task)
        /\ \A f \in DOMAIN results.field_scores :
               /\ results.field_scores[f].scores =
                      [i \in 1..Len(results.detailed_results) |->
                          results.detailed_results[i].field_scores[f]]
                      \o [k \in 1..Len(unmatched_gt) |-> 0]
               /\ results.field_scores[f].mean_score
                      = <<SeqSum(results.field_scores[f].scores), results.total_samples>>

\* C9 as the claim states it: when an input list is empty and the evaluation has no
\* aligned pair and no unmatched ground truth, every evaluator returns overall_score
\* 0.0, an empty field map and a status, and that status is not the one of an
\* alignment of two non-empty lists that paired nothing.
C9_MissingInputStatus ==
    (/\ pc = "done"
     /\ gt_list_raw = <<>> \/ pred_list_raw = <<>>
     /\ aligned_gt = <<>>
     /\ unmatched_gt = <<>>) =>
        /\ results.overall_score[1] = 0
        /\ DOMAIN results.field_scores = {}
        /\ "status" \in DOMAIN results
        /\ results.status # "no_overlap_after_alignment"

(***************************************************************************)
(* Properties of numeric_tolerance_match.                                  *)
(***************************************************************************)
\* C10 as the claim states it: for two texts that parse to numbers,
\* numeric_tolerance_match returns 1.0 when both are zero, 0.0 when exactly one is
\* zero, and otherwise 1.0 when they are equal, 0.9 when |gt - pred| / |gt| is at
\* most 5%, 0.8 when it is at most 10%, and 0.0 beyond.
C10_ToleranceBands ==
    pc = "returned" =>
        LET g == parse_numeric(gt_val)
            q == parse_numeric(pred_val)
            number(x) == x # None /\ x # <<0, 0>>
            zero(x) == IsFinite(x) /\ x[1] = 0
            equal == IF IsFinite(g) /\ IsFinite(q) THEN g[1] * q[2] = q[1] * g[2]
                     ELSE g = q
            \* |g - q| / |g| <= pct / 100, g not zero
            within(pct) ==
                /\ IsFinite(g) /\ IsFinite(q)
                /\ 100 * Abs(g[1] * q[2] - q[1] * g[2]) <= pct * q[2] * Abs(g[1])
        IN  (number(g) /\ number(q)) =>
                ret = << IF zero(g) /\ zero(q) THEN Scale
                         ELSE IF zero(g) \/ zero(q) THEN 0
                         ELSE IF equal THEN Scale
                         ELSE IF within(5) THEN (9 * Scale) \div 10
                         ELSE IF within(10) THEN (8 * Scale) \div 10
                         ELSE 0 >>
\* C11 as the claim states it: the numeric tolerance evaluator scores gt 100
\* against pred 104 as 0.9, against pred 111 as 0.8 and against pred 130 as 0.0.
C11_ToleranceExamples ==
    (pc = "returned" /\ gt_val = <<"1", "0", "0">>) =>
        /\ pred_val = <<"1", "0", "4">> => ret = <<(9 * Scale) \div 10>>
        /\ pred_val = <<"1", "1", "1">> => ret = <<(8 * Scale) \div 10>>
        /\ pred_val = <<"1", "3", "0">> => ret = <<0>>

\* C11 amended: gt 100 against pred 104 scores 0.9; against pred 111, 11% away and
\* beyond the 10% band, it scores 0.0 as against pred 130; the last prediction that
\* scores 0.8 is 110.
C11_ToleranceExamplesAmended ==
    (pc = "returned" /\ gt_val = <<"1", "0", "0">>) =>
        /\ pred_val = <<"1", "0", "4">> => ret = <<(9 * Scale) \div 10>>
        /\ pred_val = <<"1", "1", "0">> => ret = <<(8 * Scale) \div 10>>
        /\ pred_val = <<"1", "1", "1">> => ret = <<0>>
        /\ pred_val = <<"1", "3", "0">> => ret = <<0>>

\* the call on gt 100 and pred 111 returned 0.0
C11_Witness ==
    /\ pc = "returned"
    /\ gt_val = <<"1", "0", "0">>
    /\ pred_val = <<"1", "1", "1">>
    /\ ret = <<0>>
(***************************************************************************)
(* Properties of the dependency penalty.                                   *)
(***************************************************************************)
\* the evaluator has returned the scores of pairs of records
PairsScored ==
    \/ pc = "pair_done"
    \/ pc = "done" /\ "detailed_results" \in DOMAIN results

\* the records behind results["detailed_results"][i] of the drug, fa and study evaluators
ScoredGt(i) == IF pc = "pair_done" THEN gt_list_raw[i] ELSE aligned_gt[i]

ScoredPred(i) == IF pc = "pair_done" THEN pred_list_raw[i] ELSE aligned_pred[i]

\* C12: for every scored pair of the drug, functional-analysis and study evaluators
\* whose predicted record has n >= 1 dependency issues, the penalty is
\* min(0.05 * n, 0.30); the score of a field one or several issues map to is its
\* evaluator's score times (1 - penalty), taken once, and that evaluator's score is
\* recorded as original_score; the other fields keep their evaluator's score
C12_DependencyPenalty ==
    (PairsScored /\ task # "pheno") =>
        \A i \in 1..Len(results.detailed_results) :
            LET d == results.detailed_results[i]
                issues == dependency_issues_of(task, ScoredPred(i))
                n == Len(issues)
                penalty == IF 5 * n <= 30 THEN (5 * n * Scale) \div 100
                           ELSE (30 * Scale) \div 100
                raw(f) == apply_evaluator(field_evaluators(task)[f], ScoredGt(i),
                                          ScoredPred(i), f, cosine[1])
                hit(f) == \E k \in 1..n :
                              f \in affected_fields(task, issues[k], DOMAIN d.field_scores)
            IN  n >= 1 =>
                    /\ d.penalty_info.total_penalty = penalty
                    /\ \A f \in DOMAIN d.field_scores :
                           IF hit(f)
                           THEN /\ d.field_scores[f] * Scale = raw(f) * (Scale - penalty)
                                /\ f \in DOMAIN d.penalty_info.penalized_fields
                                /\ d.penalty_info.penalized_fields[f].original_score = raw(f)
                           ELSE /\ d.field_scores[f] = raw(f)
                                /\ f \notin DOMAIN d.penalty_info.penalized_fields

\* a prediction with seven issues, three of them on Variant/Haplotypes, whose score
\* 1.0 there became 0.7
C12_Witness ==
    /\ pc = "pair_done"
    /\ Len(results.detailed_results[1].dependency_issues) = 7
    /\ Len(results.detailed_results[1].penalty_info.issues_by_field["Variant/Haplotypes"]) >= 3
    /\ results.detailed_results[1].penalty_info.penalized_fields["Variant/Haplotypes"].original_score
           = Scale
    /\ results.detailed_results[1].field_scores["Variant/Haplotypes"] = (7 * Scale) \div 10
    /\ results.detailed_results[1].field_scores["PMID"] = Scale
\* the predicted record of one element of results["detailed_results"], as far as the
\* fields of the schema show it
PredictedOf(d) == [f \in DOMAIN d.field_values |-> d.field_values[f].prediction]

\* the record sets a direction without the status "Associated with" and breaks no
\* other rule of the validators
DirectionIsOnlyIssue(pred) ==
    /\ validate_drug_dependencies(pred) = <<ISSUE_DIRECTION>>
    /\ validate_all_dependencies(pred) = <<ISSUE_DIRECTION>>

\* C13: in the drug, functional-analysis and phenotype evaluators, a scored predicted
\* record that sets "Direction of effect" while its association status is not
\* "Associated with", and is otherwise consistent, has exactly one dependency issue and
\* a total penalty of 0.05, and exactly "Direction of effect" and "Is/Is Not associated"
\* are discounted
C13_DirectionWithoutAssociation ==
    (pc = "done" /\ task \in VariantTasks /\ "detailed_results" \in DOMAIN results) =>
        \A i \in 1..Len(results.detailed_results) :
            LET d == results.detailed_results[i]
            IN  DirectionIsOnlyIssue(PredictedOf(d)) =>
                    /\ Len(d.dependency_issues) = 1
                    /\ "penalty_info" \in DOMAIN d
                    /\ d.penalty_info.total_penalty = (5 * Scale) \div 100
                    /\ DOMAIN d.penalty_info.penalized_fields
                           = {"Direction of effect", "Is/Is Not associated"}
(***************************************************************************)
(* Properties of the field evaluators.                                     *)
(***************************************************************************)
\* the number of ground-truth drug tokens some predicted token matches
MatchedDrugs(gt, pred) ==
    Cardinality({ i \in 1..Len(parse_drug_list(DictGet(gt, "Drug(s)"))) :
                    \E j \in 1..Len(parse_drug_list(DictGet(pred, "Drug(s)"))) :
                        token_match(parse_drug_list(DictGet(gt, "Drug(s)"))[i],
                                    parse_drug_list(DictGet(pred, "Drug(s)"))[j]) })

\* C14: with both drug lists non-empty, under "and" the coverage is 1.0 when every
\* ground-truth token is matched and matched/total otherwise ("aspirin, warfarin"
\* against "aspirin" gives 0.5); under "or", which is also the operator when neither
\* record names one, it is max(matched/total, 1.0 if any token is matched), and it is
\* at least the coverage of the same drug lists under "and"
C14_DrugCoverage ==
    (/\ pc = "covered"
     /\ parse_drug_list(DictGet(gt_list_raw[1], "Drug(s)")) # <<>>
     /\ parse_drug_list(DictGet(pred_list_raw[1], "Drug(s)")) # <<>>) =>
        LET gt == gt_list_raw[1]
            pred == pred_list_raw[1]
            total == Len(parse_drug_list(DictGet(gt, "Drug(s)")))
            matched == MatchedDrugs(gt, pred)
            gt_op == DictGet(gt, "Multiple drugs And/or")
            pred_op == DictGet(pred, "Multiple drugs And/or")
            operator == IF gt_op # None THEN Lower(Strip(gt_op))
                        ELSE IF pred_op # None THEN Lower(Strip(pred_op))
                        ELSE <<"o", "r">>
            and_score == IF matched = total THEN Scale ELSE (matched * Scale) \div total
            fraction == (matched * Scale) \div total
            any_matched == IF matched > 0 THEN Scale ELSE 0
            or_score == IF fraction >= any_matched THEN fraction ELSE any_matched
        IN  /\ operator = <<"a", "n", "d">> => ret = <<and_score>>
            /\ operator = <<"o", "r">> => ret = <<or_score>> /\ or_score >= and_score
            /\ (gt["Drug(s)"] = <<"a", "s", "p", "i", "r", "i", "n", ",", " ", "w", "a", "r", "f", "a", "r", "i", "n">> /\ pred["Drug(s)"] = <<"a", "s", "p", "i", "r", "i", "n">>
                /\ operator = <<"a", "n", "d">>) => ret = <<Scale \div 2>>

\* "aspirin, warfarin" against "aspirin" under "and": one of two tokens, 0.5
C14_Witness ==
    /\ pc = "covered"
    /\ gt_list_raw[1] = DrugAnn(<<"a", "s", "p", "i", "r", "i", "n", ",", " ", "w", "a", "r", "f", "a", "r", "i", "n">>, <<"a", "n", "d">>)
    /\ pred_list_raw[1] = DrugAnn(<<"a", "s", "p", "i", "r", "i", "n">>, None)
    /\ ret = <<Scale \div 2>>
\* the comparison operator a p-value text writes, "=" when it writes none, and its
\* magnitude, the text without operator and spaces
WrittenOperator(text) == op_norm(parse_p_value(text)[1])

Magnitude(text) == RemoveChars(Strip(text), OperatorChars \cup SpaceChars)

\* half the operator equality plus half the numeric tolerance score of the magnitudes,
\* within_10pct being what a relative error between 5% and 10% is worth
HalfOperatorHalfMagnitude(gt_text, pred_text, within_10pct) ==
    ((IF WrittenOperator(gt_text) = WrittenOperator(pred_text) THEN Scale ELSE 0)
     + numeric_tolerance_match(Magnitude(gt_text), Magnitude(pred_text), Scale,
                               (9 * Scale) \div 10, within_10pct)) \div 2

\* C15 as stated: for two non-null p-value texts the score is half the operator equality
\* plus half the score the bands of every other numeric field (1.0, 0.9, 0.8, 0.0) give
\* the magnitudes
C15_PValueMatch ==
    (pc = "field_returned" /\ evaluator = "p_value_match"
     /\ gt_val # None /\ pred_val # None) =>
        ret = <<HalfOperatorHalfMagnitude(gt_val, pred_val, (8 * Scale) \div 10)>>

\* C15 amended: for two p-value texts that are neither null nor blank the score is half
\* the operator equality plus half the score numeric tolerance gives the magnitudes when
\* a relative error between 5% and 10% is worth 0.7
C15_PValueMatchAmended ==
    (pc = "field_returned" /\ evaluator = "p_value_match"
     /\ gt_val # None /\ pred_val # None
     /\ Strip(gt_val) # <<>> /\ Strip(pred_val) # <<>>) =>
        ret = <<HalfOperatorHalfMagnitude(gt_val, pred_val, (7 * Scale) \div 10)>>

\* "0.05" against "=0.054": equal operators and a relative error of 8% give
\* 0.5 + 0.5 * 0.7
C15_Witness ==
    /\ pc = "field_returned"
    /\ evaluator = "p_value_match"
    /\ gt_val = <<"0", ".", "0", "5">>
    /\ pred_val = <<"=", "0", ".", "0", "5", "4">>
    /\ ret = <<(85 * Scale) \div 100>>
\* C16: every field evaluator returns 1.0 when both values are null, and 0.0 when
\* exactly one is null, whatever non-null value the other is
C16_NullHandling ==
    pc = "field_returned" =>
        /\ (gt_val = None /\ pred_val = None) => ret = <<Scale>>
        /\ ((gt_val = None) # (pred_val = None)) => ret = <<0>>

\* a non-null text that parse_numeric cannot read as a number
Unparseable(value) == value # None /\ parse_numeric(value) = None

\* C17: whenever the ground-truth or the predicted value of a numeric-tolerance field
\* is a non-null text that is no number, both included, the call returns the score 0.0
C17_UnparseableScoresZero ==
    (pc = "returned" /\ (Unparseable(gt_val) \/ Unparseable(pred_val))) => ret = <<0>>
(***************************************************************************)
(* Properties of the aggregation.                                          *)
(***************************************************************************)
\* the weight of a field, in tenths: that of the table the caller supplied, else that of
\* the table of the task's schema (the phenotype task has one), else 1.0
WeightOf(f) ==
    IF field_weights # <<>>
    THEN (IF f \in DOMAIN field_weights[1] THEN field_weights[1][f] ELSE 10)
    ELSE IF task = "pheno" THEN DEFAULT_FIELD_WEIGHTS[f]
    ELSE 10

\* C18: the overall score of an evaluation that scored fields is the sum of
\* weight_f * mean_f over the sum of weight_f, a field weighing 1.0 unless a table gives
\* it a weight; the means are those of the final score lists, the zeros of unmatched
\* ground truth included; and with non-negative weights and means in [0,1] the overall
\* score lies in [0,1]
C18_OverallScore ==
    (pc \in {"done", "pair_done"} /\ "field_scores" \in DOMAIN results
     /\ DOMAIN results.field_scores # {}) =>
        LET fields == DOMAIN results.field_scores
            mean(f) == results.field_scores[f].mean_score
            weights == [f \in fields |-> WeightOf(f)]
            is_weighted_mean(sum, total) ==
                total > 0 => results.overall_score = <<sum[1], sum[2] * total>>
        IN  /\ \A f \in fields :
                   results.field_scores[f].scores # <<>> =>
                       REq(mean(f), mean_of(results.field_scores[f].scores))
            /\ is_weighted_mean(weighted_sum_over(fields, [f \in fields |-> mean(f)], weights),
                                total_weight_over(fields, weights))
            /\ ((\A f \in fields : weights[f] >= 0 /\ MeanInUnit(mean(f)))
                /\ total_weight_over(fields, weights) > 0)
                   => MeanInUnit(results.overall_score)

\* a drug evaluation with a table, one aligned pair and one unmatched ground-truth
\* record: "Gene" scored 1.0 and 0.0 and weighs 2.0, "Drug(s)" weighs nothing, and the
\* overall score is 169.5 / 380, about 0.446, where the plain mean is about 0.420
C18_Witness ==
    /\ pc = "done"
    /\ task = "drug"
    /\ field_weights = <<WeightTable>>
    /\ Len(aligned_gt) = 1
    /\ Len(unmatched_gt) = 1
    /\ results.field_scores["Gene"].scores = <<Scale, 0>>
    /\ results.overall_score = <<1695 * 1000, 380>>
(***************************************************************************)
(* The evaluation as one function of its inputs: the loops of the aligners *)
(* run to their end.  acc holds the pairs and the claimed indices so far.  *)
(***************************************************************************)
RECURSIVE variant_pass(_, _, _, _, _)
\* the first loop of a variant aligner from ground-truth record number position on
variant_pass(t, gt_exp, pred_idx, position, acc) ==
    IF position > Len(gt_exp) THEN acc
    ELSE LET m == find_match(t, gt_exp[position], pred_idx, acc.claimed)
         IN  variant_pass(t, gt_exp, pred_idx, position + 1,
                          IF m.idx # 0
                          THEN [gt |-> Append(acc.gt, gt_exp[position]),
                                pred |-> Append(acc.pred, pred_idx[m.idx].rec),
                                claimed |-> acc.claimed \cup {m.idx}]
                          ELSE acc)

RECURSIVE fallback_pass(_, _, _, _)
\* the second loop of the phenotype aligner
fallback_pass(gt_exp, pred_idx, position, acc) ==
    IF position > Len(gt_exp) THEN acc
    ELSE LET idx == find_entity_match(gt_exp[position], acc.gt, pred_idx, acc.claimed)
         IN  fallback_pass(gt_exp, pred_idx, position + 1,
                           IF idx # 0
                           THEN [gt |-> Append(acc.gt, gt_exp[position]),
                                 pred |-> Append(acc.pred, pred_idx[idx].rec),
                                 claimed |-> acc.claimed \cup {idx}]
                           ELSE acc)

\* aligned_gt, aligned_pred and unmatched_gt of a variant aligner
align_by_variant(t, gt_list, pred_list) ==
    LET passes(gt_exp, pred_idx) ==
            LET first == variant_pass(t, gt_exp, pred_idx, 1,
                                      [gt |-> <<>>, pred |-> <<>>, claimed |-> {}])
            IN  IF t = "pheno" THEN fallback_pass(gt_exp, pred_idx, 1, first) ELSE first
        returned(gt_exp, acc) ==
            [gt |-> acc.gt, pred |-> acc.pred,
             unmatched_gt |-> collect_unmatched_gt(gt_exp, acc.gt)]
    IN  returned(expand_annotations_by_variant(gt_list),
                 passes(expand_annotations_by_variant(gt_list),
                        build_pred_index(expand_annotations_by_variant(pred_list))))

RECURSIVE id_pass(_, _, _, _)
\* the loop "Match by Variant Annotation ID first"
id_pass(gt_list, pred_list, position, acc) ==
    IF position > Len(gt_list) THEN acc
    ELSE LET idx == id_match(gt_list[position], pred_list, acc.claimed)
         IN  id_pass(gt_list, pred_list, position + 1,
                     IF idx # 0
                     THEN [gt |-> Append(acc.gt, gt_list[position]),
                           pred |-> Append(acc.pred, pred_list[idx]),
                           done |-> acc.done \cup {position},
                           claimed |-> acc.claimed \cup {idx}]
                     ELSE acc)

RECURSIVE greedy_pass(_, _, _, _, _)
\* the loop "Greedily assign matches (one-to-one)"
greedy_pass(gt_list, pred_list, similarities, position, acc) ==
    IF position > Len(similarities) THEN acc
    ELSE LET m == similarities[position]
         IN  greedy_pass(gt_list, pred_list, similarities, position + 1,
                         IF m.gt_idx \notin acc.done /\ unclaimed(m.pred_idx, acc.claimed)
                         THEN [gt |-> Append(acc.gt, gt_list[m.gt_idx]),
                               pred |-> Append(acc.pred, pred_list[m.pred_idx]),
                               done |-> acc.done \cup {m.gt_idx},
                               claimed |-> acc.claimed \cup {m.pred_idx}]
                         ELSE acc)

\* aligned_gt, aligned_pred and unmatched_gt of align_study_parameters
align_study_parameters(gt_list, pred_list, cos) ==
    LET similarities(ids) ==
            IF /\ \E i \in 1..Len(gt_list) : i \notin ids.done
               /\ \E j \in 1..Len(pred_list) : j \notin ids.claimed
            THEN sort_descending(pairwise_similarities(gt_list, pred_list, ids.done,
                                                       ids.claimed, cos, 1, 1))
            ELSE <<>>
        greedy(ids) == greedy_pass(gt_list, pred_list, similarities(ids), 1, ids)
        returned(acc) ==
            [gt |-> acc.gt, pred |-> acc.pred,
             unmatched_gt |-> unmatched_by_index(gt_list, acc.done)]
    IN  IF gt_list = <<>> \/ pred_list = <<>>
        THEN [gt |-> <<>>, pred |-> <<>>, unmatched_gt |-> gt_list]
        ELSE returned(greedy(id_pass(gt_list, pred_list, 1,
                                     [gt |-> <<>>, pred |-> <<>>, done |-> {},
                                      claimed |-> {}])))

\* what an evaluator returns for two lists, the display keys and the unmatched
\* predictions left out
Evaluate(t, gt_list, pred_list, weights, cos) ==
    LET scored(a) ==
            CASE t = "drug" ->
                     evaluate_drug_annotations(a.gt, a.pred, <<>>, a.unmatched_gt, <<>>,
                                               weights, cos)
              [] t = "fa" ->
                     evaluate_fa_from_articles(a.gt, a.pred, <<>>, a.unmatched_gt, <<>>, cos)
              [] t = "pheno" ->
                     evaluate_pheno(a.gt, a.pred, <<>>, a.unmatched_gt, <<>>, weights, cos)
              [] OTHER ->
                     evaluate_study_parameters(a.gt, a.pred, <<>>, a.unmatched_gt, <<>>,
                                               weights, cos)
    IN  IF returns_on_missing_input(t, gt_list, pred_list) THEN missing_input_result(t)
        ELSE IF t = "study" THEN scored(align_study_parameters(gt_list, pred_list, cos))
        ELSE scored(align_by_variant(t, gt_list, pred_list))

\* the part of a result the scores make up
ScoreParts(res) ==
    [total_samples |-> res.total_samples, field_scores |-> res.field_scores,
     overall_score |-> res.overall_score]

\* the predicted record satisfies a tier of the task's aligner for some ground-truth
\* record, no prediction being claimed
SatisfiesSomeTier(t, gt_list, pred) ==
    IF t = "study"
    THEN \E g \in 1..Len(gt_list) :
             \/ id_match(gt_list[g], <<pred>>, {}) # 0
             \/ \E cos \in CosineChoices :
                    pairwise_similarities(<<gt_list[g]>>, <<pred>>, {}, {}, cos, 1, 1) # <<>>
    ELSE \E g \in 1..Len(expand_annotations_by_variant(gt_list)) :
             \/ find_match(t, expand_annotations_by_variant(gt_list)[g],
                           build_pred_index(expand_one(pred)), {}).idx # 0
             \/ /\ t = "pheno"
                /\ find_entity_match(expand_annotations_by_variant(gt_list)[g], <<>>,
                                     build_pred_index(expand_one(pred)), {}) # 0

\* the prediction list without the records that satisfy no tier
WithoutStrangers(t, gt_list, pred_list) ==
    LET stays(pred) == SatisfiesSomeTier(t, gt_list, pred)
    IN  SelectSeq(pred_list, stays)

\* C19: the field score lists, the field means, total_samples and overall_score of an
\* evaluation are those of the same evaluation without the predictions that satisfy
\* no alignment tier for any ground-truth record
C19_UnmatchedPredictionsFrame ==
    (pc = "done" /\ WithoutStrangers(task, gt_list_raw, pred_list_raw) # pred_list_raw) =>
        ScoreParts(results)
            = ScoreParts(Evaluate(task, gt_list_raw,
                                  WithoutStrangers(task, gt_list_raw, pred_list_raw),
                                  field_weights, IF cosine = <<>> THEN 0 ELSE cosine[1]))

\* a drug evaluation that aligned a pair and whose second prediction satisfies no tier
C19_Witness ==
    /\ pc = "done"
    /\ task = "drug"
    /\ Len(aligned_gt) = 1
    /\ Len(pred_list_raw) = 2
    /\ Len(WithoutStrangers(task, gt_list_raw, pred_list_raw)) = 1
    /\ Len(unmatched_pred) = 1
    /\ results.total_samples = 1
(***************************************************************************)
(* evaluate_drug_annotations on records whose values need not be texts.    *)
(***************************************************************************)
\* evaluate_drug_annotations([gt_list, pred_list]) raises while it aligns or while
\* it scores an aligned pair
evaluation_raises(gt_list, pred_list) ==
    LET pair_raises(a) ==
            \E i \in 1..Len(a.gt) : drugs_coverage_raises(a.gt[i], a.pred[i])
    IN  \/ expand_raises(gt_list)
        \/ expand_raises(pred_list)
        \/ pair_raises(align_by_variant("drug", gt_list, pred_list))

\* evaluate_drug_annotations([gt_list_raw, pred_list_raw]) from its call to its
\* return or to the exception that leaves it
EvaluateSamples ==
    /\ pc = "samples"
    /\ IF evaluation_raises(gt_list_raw, pred_list_raw)
       THEN /\ pc' = "raised"
            /\ UNCHANGED <<cosine, results>>
       ELSE /\ \E cos \in CosineValues :
                   /\ cosine' = <<cos>>
                   /\ results' = Evaluate("drug", gt_list_raw, pred_list_raw,
                                          field_weights, cos)
            /\ pc' = "evaluated"
    /\ UNCHANGED <<runner, shared, inputs, gt_expanded, pred_index, pos, alignment, similarity_scores,
                   unmatched, call>>

\* evaluate_drug_annotations is called with two items, each a list of records or a str
InitSamples ==
    /\ task = "drug"
    /\ gt_list_raw \in ListsUpTo(SampleVocab, MaxSamples) \cup {NotAList}
    /\ pred_list_raw \in ListsUpTo(SampleVocab, MaxSamples) \cup {NotAList}
    /\ field_weights = <<>>
    /\ pc = "samples"
    /\ evaluator = "none"
    /\ gt_val = None
    /\ pred_val = None
    /\ Idle

NextSamples == EvaluateSamples

SpecSamples == InitSamples /\ [][NextSamples]_vars

\* C20: an evaluation raises to its caller only when a top-level item is malformed;
\* a record or field value at fault never aborts it, so every evaluation of two
\* lists of records returns its scores
C20_OnlyTopLevelRaises ==
    pc = "raised" => (gt_list_raw = NotAList \/ pred_list_raw = NotAList)
(***************************************************************************)
(* The same evaluation called a second time on the same two lists.         *)
(***************************************************************************)
\* a set of claimed indices that outlives the call that filled it
matched_indices_kept(previous) == previous

\* matched_pred_indices: set = set() at the entry of an aligner: the set of a call
\* holds nothing of the call before
matched_indices_at_entry(previous) == {}

\* the caller keeps what the first call returned and calls the evaluator again with
\* the lists it passed before; the collaborator answers as it did, and the evaluator
\* builds its lists, sets and result anew
CallAgain ==
    /\ pc \in {"done", "pair_done"}
    /\ ret = <<>>
    /\ ret' = <<results>>
    /\ pc' = IF pc = "done" THEN "start" ELSE "pair"
    /\ gt_expanded' = <<>>
    /\ pred_index' = <<>>
    /\ pos' = 0
    /\ aligned_gt' = <<>>
    /\ aligned_pred' = <<>>
    /\ display_keys' = <<>>
    /\ matched_pred_indices' = matched_indices_at_entry(matched_pred_indices)
    /\ matched_gt_indices' = matched_indices_at_entry(matched_gt_indices)
    /\ similarity_scores' = <<>>
    /\ pairs' = <<>>
    /\ unmatched_gt' = <<>>
    /\ unmatched_pred' = <<>>
    /\ results' = NoResult
    /\ UNCHANGED <<runner, shared, inputs, cosine, evaluator, gt_val, pred_val>>

InitTwice ==
    /\ \/ /\ task \in Tasks
          /\ gt_list_raw \in
                 ListsUpTo(IF task = "study" THEN GtStudyVocab ELSE GtVocab, MaxAgain)
          /\ pred_list_raw \in
                 ListsUpTo(IF task = "study" THEN PredStudyVocab ELSE PredVocab, MaxAgain)
          /\ field_weights \in IF task = "fa" THEN {<<>>} ELSE {<<>>, <<WeightTable>>}
          /\ pc = "start"
       \/ /\ task = "fa"
          /\ gt_list_raw \in { <<gt>> : gt \in GtVocab }
          /\ pred_list_raw \in { <<pred>> : pred \in PairPredVocab }
          /\ field_weights \in {<<>>, <<WeightTable>>}
          /\ pc = "pair"
    /\ evaluator = "none"
    /\ gt_val = None
    /\ pred_val = None
    /\ Idle

NextTwice ==
    \/ Next
    \/ CallAgain

SpecTwice == InitTwice /\ [][NextTwice]_vars

Instance(k) == <<"<SentenceTransformer>", k>>

Evaluating == <<runner, inputs, cosine, pc, gt_expanded, pred_index, pos, alignment,
                similarity_scores, unmatched, results, call>>

\* a thread enters the try block and calls _get_model()
EnterGetModel(t) ==
    /\ thread_pc[t] \in {"idle", "returned"}
    /\ thread_pc' = [thread_pc EXCEPT ![t] = "test"]
    /\ thread_model' = [thread_model EXCEPT ![t] = None]
    /\ UNCHANGED <<_model, constructed, Evaluating>>

\* if _model is None:
TestModel(t) ==
    /\ thread_pc[t] = "test"
    /\ thread_pc' = [thread_pc EXCEPT ![t] = IF _model = None THEN "construct" ELSE "return"]
    /\ UNCHANGED <<_model, constructed, thread_model, Evaluating>>

\* _model = SentenceTransformer(...): the constructor returns an instance, which is
\* stored, or raises, and the except clause of semantic_similarity returns the
\* SequenceMatcher ratio
ConstructModel(t) ==
    /\ thread_pc[t] = "construct"
    /\ \/ /\ constructed' = constructed + 1
          /\ _model' = Instance(constructed + 1)
          /\ thread_pc' = [thread_pc EXCEPT ![t] = "return"]
       \/ /\ thread_pc' = [thread_pc EXCEPT ![t] = "returned"]
          /\ UNCHANGED <<_model, constructed>>
    /\ UNCHANGED <<thread_model, Evaluating>>

\* return _model, into model of semantic_similarity
ReturnModel(t) ==
    /\ thread_pc[t] = "return"
    /\ thread_model' = [thread_model EXCEPT ![t] = _model]
    /\ thread_pc' = [thread_pc EXCEPT ![t] = "encode"]
    /\ UNCHANGED <<_model, constructed, Evaluating>>

\* model.encode([gt_str, pred_str]) and the cosine of the two embeddings
Encode(t) ==
    /\ thread_pc[t] = "encode"
    /\ thread_pc' = [thread_pc EXCEPT ![t] = "returned"]
    /\ UNCHANGED <<_model, constructed, thread_model, Evaluating>>

\* the module is imported and no thread has called yet
InitThreads ==
    /\ task = "study"
    /\ gt_list_raw = <<>>
    /\ pred_list_raw = <<>>
    /\ field_weights = <<>>
    /\ pc = "threads"
    /\ evaluator = "semantic_similarity"
    /\ gt_val = None
    /\ pred_val = None
    /\ Idle

NextThreads ==
    \E t \in Threads :
        \/ EnterGetModel(t)
        \/ TestModel(t)
        \/ ConstructModel(t)
        \/ ReturnModel(t)
        \/ Encode(t)

SpecThreads == InitThreads /\ [][NextThreads]_vars

\* C22: whatever the interleaving of the calls, at most one model is constructed and
\* every call that got a model got that one
C22_ModelConstructedOnce ==
    /\ constructed <= 1
    /\ \A t \in Threads : thread_model[t] \in {None, Instance(1)}
(***************************************************************************)
(* The Gene + Drug(s) pass of the phenotype aligner.                       *)
(***************************************************************************)
\* the text of a field the way two records are compared: trimmed, in lower case, a
\* null being no text
ComparedText(rec, key) ==
    IF Truthy(DictGet(rec, key)) THEN Lower(Strip(DictGet(rec, key))) ELSE <<>>

\* the drugs of two records are equal: by resolved drug id when both carry one,
\* otherwise by text
SameDrug(gt, pred) ==
    IF Truthy(get_normalized_drug_id(gt)) /\ Truthy(get_normalized_drug_id(pred))
    THEN get_normalized_drug_id(gt) = get_normalized_drug_id(pred)
    ELSE ComparedText(gt, "Drug(s)") = ComparedText(pred, "Drug(s)")

\* the two records name the same gene and the same drug
SameEntity(gt, pred) ==
    /\ ComparedText(gt, "Gene") # <<>>
    /\ ComparedText(gt, "Gene") = ComparedText(pred, "Gene")
    /\ SameDrug(gt, pred)

\* the ground-truth indices of the aligned pairs
PairedGt == { pairs[k].g : k \in 1..Len(pairs) }

\* C23: when a variant aligner returns, (a) in the phenotype task no ground-truth
\* record is left unaligned while an unclaimed prediction names its gene and its
\* drug, and a record the Gene + Drug pass aligned got the first prediction that
\* named them and was not claimed before; (b) the pairs of that pass do not differ in
\* Gene or Drug; (c) the drug and functional-analysis aligners have no such pair
C23_EntityFallback ==
    (task \in VariantTasks /\ AlignerReturned) =>
        /\ task = "pheno" =>
               \A g \in 1..Len(gt_expanded) : \A i \in DOMAIN pred_index :
                   (g \notin PairedGt /\ i \notin matched_pred_indices)
                       => ~SameEntity(gt_expanded[g], pred_index[i].rec)
        /\ \A k \in 1..Len(pairs) :
               pairs[k].tier = 4 =>
                   /\ task = "pheno"
                   /\ ComparedText(GtAt(pairs[k].g), "Gene")
                          = ComparedText(PredAt(pairs[k].p), "Gene")
                   /\ SameDrug(GtAt(pairs[k].g), PredAt(pairs[k].p))
                   /\ \A j \in 1..(pairs[k].p - 1) :
                          SameEntity(GtAt(pairs[k].g), PredAt(j))
                              => \E e \in 1..(k - 1) : pairs[e].p = j
(***************************************************************************)
(* align_study_parameters_by_similarity on its own.                        *)
(***************************************************************************)
\* a study-parameter dict that agrees with a FullStudy in its four category fields
\* and in the operator of its P Value, and holds a null everywhere else
QuarterStudy ==
    [k \in DOMAIN study_field_evaluators |->
        CASE k = "P Value" -> <<"=", " ", "0", ".", "9">>
          [] k \notin excluded_fields /\ study_field_evaluators[k] = "category_equal" -> <<"c", "o", "h", "o", "r", "t">>
          [] OTHER -> None]

AlignGtVocab == { FullStudy(T_va1, <<"1", "0", "0">>), FullStudy(None, <<"1", "0", "0">>) }

AlignPredVocab ==
    { FullStudy(T_va1, <<"5", "0", "0">>), FullStudy(None, <<"1", "0", "0">>), QuarterStudy,
      Study(None, None, None, None, None, None, None, None, None) }

InitAlignStudy ==
    /\ task = "study"
    /\ gt_list_raw \in ListsUpTo(AlignGtVocab, MaxStudy)
    /\ pred_list_raw \in ListsUpTo(AlignPredVocab, MaxStudy)
    /\ field_weights = <<>>
    /\ pc = "start"
    /\ evaluator = "none"
    /\ gt_val = None
    /\ pred_val = None
    /\ Idle

NextAlignStudy ==
    \/ StudyStart
    \/ StudyIdStep
    \/ StudySimilarity
    \/ StudyGreedyStep
    \/ StudyCollect

SpecAlignStudy == InitAlignStudy /\ [][NextAlignStudy]_vars

\* the similarity of the records of pair k over the fields that are no identifiers
PairSimilarity(k) ==
    compute_study_parameters_similarity(gt_list_raw[pairs[k].g], pred_list_raw[pairs[k].p],
                                        IF cosine = <<>> THEN 0 ELSE cosine[1])

\* what C24 says of the returned alignment but for the bound on the similarity:
\* the pairs that share a Variant Annotation ID come first and a ground-truth record
\* is in such a pair whenever a prediction with its ID is in none; the other pairs
\* come in descending similarity, ties in the order the records are met; no record
\* is in two pairs
StudyPairsInOrder ==
    /\ \A k, l \in 1..Len(pairs) :
           /\ (pairs[k].tier = 1 /\ pairs[l].tier = 5) => k < l
           /\ k # l => (pairs[k].g # pairs[l].g /\ pairs[k].p # pairs[l].p)
           /\ (k < l /\ pairs[k].tier = 5 /\ pairs[l].tier = 5) =>
                  /\ RLeq(PairSimilarity(l), PairSimilarity(k))
                  /\ PairSimilarity(l) = PairSimilarity(k) => pairs[k].g < pairs[l].g
    /\ \A k \in 1..Len(pairs) :
           pairs[k].tier = 1 =>
               /\ DictGet(gt_list_raw[pairs[k].g], "Variant Annotation ID") # None
               /\ DictGet(gt_list_raw[pairs[k].g], "Variant Annotation ID")
                      = DictGet(pred_list_raw[pairs[k].p], "Variant Annotation ID")
    /\ \A g \in 1..Len(gt_list_raw) : \A i \in 1..Len(pred_list_raw) :
           (/\ DictGet(gt_list_raw[g], "Variant Annotation ID") # None
            /\ DictGet(gt_list_raw[g], "Variant Annotation ID")
                   = DictGet(pred_list_raw[i], "Variant Annotation ID")
            /\ ~\E k \in 1..Len(pairs) : pairs[k].tier = 1 /\ pairs[k].p = i)
               => \E k \in 1..Len(pairs) : pairs[k].tier = 1 /\ pairs[k].g = g

\* C24 as the claim states it: when the study-parameter aligner returns, the pairs
\* are ordered and one-to-one as above and every pair that shares no ID has a
\* similarity above the threshold of 0.3
C24_StudyAlignment ==
    (task = "study" /\ pc = "score") =>
        /\ StudyPairsInOrder
        /\ \A k \in 1..Len(pairs) :
               pairs[k].tier = 5 => ~RLeq(PairSimilarity(k), align_matching_threshold)

\* C24, amended: the same with a similarity of at least the threshold
C24_StudyAlignmentAmended ==
    (task = "study" /\ pc = "score") =>
        /\ StudyPairsInOrder
        /\ \A k \in 1..Len(pairs) :
               pairs[k].tier = 5 => RLeq(align_matching_threshold, PairSimilarity(k))

\* the aligner returned a pair by ID and then a pair whose similarity is the threshold
C24_Witness ==
    /\ task = "study"
    /\ pc = "score"
    /\ Len(pairs) = 2
    /\ pairs[1].tier = 1
    /\ pairs[2].tier = 5
    /\ REq(PairSimilarity(2), align_matching_threshold)
(***************************************************************************)
(* The evaluator each variant task gives its "Variant/Haplotypes" field.   *)
(***************************************************************************)
VariantTexts ==
    { None, <<>>, <<"r", "s", "1">>, <<" ", "R", "S", "1">>, <<"r", "s", "1", "2">>, <<"p", "o", "o", "r", " ", "m", "e", "t", "a", "b", "o", "l", "i", "z", "e", "r", "s">>, <<"P", "o", "o", "r", " ", " ", "M", "e", "t", "a", "b", "o", "l", "i", "z", "e", "r", "s", " ">>,
      <<"C", "Y", "P", "2", "D", "6", " ", "p", "o", "o", "r", " ", "m", "e", "t", "a", "b", "o", "l", "i", "z", "e", "r", "s">>, <<"n", "o", "r", "m", "a", "l", " ", "f", "u", "n", "c", "t", "i", "o", "n">> }

\* field_evaluators["Variant/Haplotypes"](gt.get(field), pred.get(field)) in a task
InitVariantField ==
    /\ task \in VariantTasks
    /\ gt_list_raw = <<>>
    /\ pred_list_raw = <<>>
    /\ field_weights = <<>>
    /\ pc = "field"
    /\ evaluator = field_evaluators(task)["Variant/Haplotypes"]
    /\ gt_val \in VariantTexts
    /\ pred_val \in VariantTexts
    /\ Idle

SpecVariantField == InitVariantField /\ [][NextField]_vars

\* C25: in the drug, functional-analysis and phenotype tasks the score of two variant
\* texts is 1.0 when the normalized ground truth is a substring of the normalized
\* prediction and 0.0 otherwise, but when either normalized text is a canonical
\* phenotype-group label it is 1.0 only for equal normalized texts
C25_VariantFieldScore ==
    LET gt_str == CollapseSpaces(Lower(Strip(gt_val)))
        pred_str == CollapseSpaces(Lower(Strip(pred_val)))
    IN  (/\ pc = "field_returned"
         /\ gt_val # None /\ pred_val # None
         /\ gt_str # <<>> /\ pred_str # <<>>) =>
            ret[1] = IF gt_str \in phenotype_group_labels \/ pred_str \in phenotype_group_labels
                     THEN (IF gt_str = pred_str THEN Scale ELSE 0)
                     ELSE IF IsSubstr(gt_str, pred_str) THEN Scale ELSE 0
(***************************************************************************)
(* validate_statistical_consistency on one predicted study-parameter dict. *)
(***************************************************************************)
FrequencyTexts == { None, <<"0">>, <<"0", ".", "5">>, <<"1">>, <<"1", ".", "5">>, <<"-", "0", ".", "1">>, <<"a", "b", "c">> }

\* a dict with two frequencies and the two study sizes, every other field missing
FrequencyAnn(freq_cases, freq_controls, study_cases, study_controls) ==
    [k \in {"Frequency In Cases", "Frequency In Controls", "Study Cases", "Study Controls"} |->
        CASE k = "Frequency In Cases" -> freq_cases
          [] k = "Frequency In Controls" -> freq_controls
          [] k = "Study Cases" -> study_cases
          [] OTHER -> study_controls]

\* validate_statistical_consistency(pred_list_raw[1])
ValidateCall ==
    /\ pc = "validate"
    /\ ret' = <<validate_statistical_consistency(pred_list_raw[1])>>
    /\ pc' = "validated"
    /\ UNCHANGED <<runner, shared, inputs, cosine, gt_expanded, pred_index, pos, alignment,
                   similarity_scores, unmatched, results, evaluator, gt_val, pred_val>>

InitValidate ==
    /\ task = "study"
    /\ gt_list_raw = <<>>
    /\ pred_list_raw \in { <<FrequencyAnn(fa, fo, sa, so)>> :
                              fa \in FrequencyTexts, fo \in FrequencyTexts,
                              sa \in {None, <<"1", "0", "0">>}, so \in {None, <<"1", "0", "0">>} }
    /\ field_weights = <<>>
    /\ pc = "validate"
    /\ evaluator = "validate_statistical_consistency"
    /\ gt_val = None
    /\ pred_val = None
    /\ Idle

NextValidate == ValidateCall

SpecValidate == InitValidate /\ [][NextValidate]_vars

\* the characters of the name of a frequency field
KeyText(key) ==
    IF key = "Frequency In Cases" THEN <<"F", "r", "e", "q", "u", "e", "n", "c", "y", " ", "I", "n", " ", "C", "a", "s", "e", "s">> ELSE <<"F", "r", "e", "q", "u", "e", "n", "c", "y", " ", "I", "n", " ", "C", "o", "n", "t", "r", "o", "l", "s">>

\* the issues name the frequency under key exactly when it is a number outside [0, 1]
FrequencyReported(key, issues) ==
    LET reported(freq) ==
            \E i \in 1..Len(issues) : issues[i] = issue_frequency(KeyText(key), freq)
        outside(freq) == freq # None /\ (FLt(freq, <<0, 1>>) \/ FLt(<<1, 1>>, freq))
        agree(freq) ==
            IF outside(freq) THEN reported(freq)
            ELSE ~\E i \in 1..Len(issues) : IsSubstr(KeyText(key), issues[i])
    IN  agree(parse_numeric(DictGet(pred_list_raw[1], key)))

\* C26: the validator reports a predicted record's Frequency In Cases, and its
\* Frequency In Controls, when and only when it parses to a number outside [0, 1],
\* whatever the record's other fields hold
C26_FrequencyInUnitInterval ==
    pc = "validated" =>
        /\ FrequencyReported("Frequency In Cases", ret[1])
        /\ FrequencyReported("Frequency In Controls", ret[1])
(***************************************************************************)
(* BenchmarkRunner: benchmark_pmcid, benchmark_multiple and the two        *)
(* aggregations, for the drug and the functional-analysis task.            *)
(***************************************************************************)
\* the result of a task that was skipped or whose evaluation failed
error_result(message) == [error |-> message, overall_score |-> RZero, total_samples |-> 0]

\* the keys benchmark_pmcid copies from an evaluator's result, with their defaults
copied_result(result, pred) ==
    [k \in {"overall_score", "field_scores", "total_samples", "detailed_results",
            "aligned_variants", "unmatched_ground_truth", "unmatched_predictions"} |->
        IF k \in DOMAIN result THEN result[k]
        ELSE CASE k = "overall_score" -> RZero
               [] k = "total_samples" -> Len(pred)
               [] OTHER -> <<>>]

\* one task branch of benchmark_pmcid, the ground truth of the task being non-empty
task_result(t, gt, pred, cos) ==
    IF pred = <<>> THEN error_result("Empty predictions list")
    ELSE IF t = "drug" /\ evaluation_raises(gt, pred) THEN error_result("Evaluation failed")
    ELSE copied_result(Evaluate(t, gt, pred, <<>>, cos), pred)

\* the key of a task's records in the ground truth and in the predictions, and the
\* evaluator that benchmark_pmcid calls for it
RunnerTasks ==
    [name \in {"var-drug", "var-fa"} |->
        IF name = "var-drug" THEN [key |-> "var_drug_ann", t |-> "drug"]
        ELSE [key |-> "var_fa_ann", t |-> "fa"]]

\* benchmark_pmcid(pmcid, predictions) with ground_truth = self.ground_truth[pmcid]:
\* a result for every task the ground truth has records of
benchmark_pmcid(ground_truth, predictions, cos) ==
    [name \in { n \in DOMAIN RunnerTasks : ground_truth[RunnerTasks[n].key] # <<>> } |->
        task_result(RunnerTasks[name].t, ground_truth[RunnerTasks[name].key],
                    predictions[RunnerTasks[name].key], cos)]

\* a result calculate_task_averages takes into an average: its document was
\* benchmarked and the task's result has an overall_score and no error
is_scored(scores, t) ==
    /\ scores # <<>>
    /\ "error" \notin DOMAIN scores[1]
    /\ t \in DOMAIN scores[1]
    /\ "overall_score" \in DOMAIN scores[1][t]
    /\ "error" \notin DOMAIN scores[1][t]

\* the results of a task that are taken into its average, in document order
RECURSIVE scored_results(_, _)
scored_results(all, t) ==
    IF all = <<>> THEN <<>>
    ELSE (IF is_scored(Head(all), t) THEN <<Head(all)[1][t]>> ELSE <<>>)
         \o scored_results(Tail(all), t)

RECURSIVE Gcd(_, _)
Gcd(a, b) == IF b = 0 THEN a ELSE Gcd(b, a % b)

\* the same number in lowest terms
RNormal(r) == <<r[1] \div Gcd(r[1], r[2]), r[2] \div Gcd(r[1], r[2])>>

RECURSIVE RSum(_)
RSum(rs) == IF rs = <<>> THEN RZero ELSE RNormal(RAdd(RNormal(Head(rs)), RSum(Tail(rs))))

\* total_gt_count of one result
total_gt_count(result) ==
    DictGetOr(result, "total_samples", 0) + Len(DictGetOr(result, "unmatched_ground_truth", <<>>))

calculate_task_averages(all) ==
    LET tasks == UNION { DOMAIN all[i][1] : i \in { j \in 1..Len(all) :
                             all[j] # <<>> /\ "error" \notin DOMAIN all[j][1] } }
        average(scores) ==
            IF scores = <<>> THEN RZero
            ELSE RNormal(<<RSum(scores)[1], RSum(scores)[2] * Len(scores)>>)
        overall_scores(rs) == [i \in 1..Len(rs) |-> rs[i].overall_score]
        gt_counts(rs) == [i \in 1..Len(rs) |-> total_gt_count(rs[i])]
    IN  [average_scores |-> [t \in tasks |-> average(overall_scores(scored_results(all, t)))],
         task_gt_counts |-> [t \in tasks |-> SeqSum(gt_counts(scored_results(all, t)))]]

calculate_overall_score(task_averages, task_gt_counts) ==
    LET included == { t \in DOMAIN task_averages :
                        DictGetOr(task_gt_counts, t, 0) > 0 }
        weighted_sum == weighted_sum_over(included, task_averages, task_gt_counts)
        total_gt == total_weight_over(included, task_gt_counts)
    IN  IF DOMAIN task_averages = {} \/ DOMAIN task_gt_counts = {} THEN RZero
        ELSE IF total_gt = 0 THEN RZero
        ELSE RNormal(<<weighted_sum[1], weighted_sum[2] * total_gt>>)

\* the ground truth and the predictions of a document: a drug ground truth of no, one
\* or two records and a functional-analysis ground truth of no or one record
RunnerGroundTruths ==
    { [var_drug_ann |-> d, var_fa_ann |-> f] :
        d \in { <<>>, <<Ann(T_star, None, T_gene, T_drug)>>,
                <<Ann(T_rs1, None, T_gene, T_drug), Ann(T_star, None, T_gene, T_drug)>> },
        f \in { <<>>, <<Ann(T_rs1, None, T_gene, T_drug)>> } }

RunnerPredictions ==
    { [var_drug_ann |-> d, var_fa_ann |-> f] :
        d \in { <<>>, <<Ann(T_rs1, None, T_gene, T_drug)>> },
        f \in { <<>>, <<Ann(T_rs1, None, T_gene, None)>> } }

\* a document of outputs: its predictions and, when self.ground_truth has the
\* document, its ground truth
Documents ==
    { [ground_truth |-> <<g>>, predictions |-> q] :
        g \in RunnerGroundTruths, q \in RunnerPredictions }
    \cup { [ground_truth |-> <<>>, predictions |-> q] : q \in RunnerPredictions }

\* all_results[pmcid] of benchmark_multiple for one document of outputs
benchmarked(doc, cos) ==
    IF doc.ground_truth = <<>> THEN <<>>
    ELSE <<benchmark_pmcid(doc.ground_truth[1], doc.predictions, cos)>>

\* benchmark_multiple(outputs): all_results is computed once, then the averages
\* from it, then the overall score from the averages
BenchmarkMultiple ==
    /\ pc = "runner"
    /\ \E outputs \in ListsUpTo(Documents, MaxDocs), cos \in CosineValues :
           \E all \in { [i \in 1..Len(outputs) |-> benchmarked(outputs[i], cos)] } :
               \E averages \in { calculate_task_averages(all) } :
                   /\ all_results' = all
                   /\ aggregated' =
                          <<[task_scores |-> averages.average_scores,
                             sample_counts |-> averages.task_gt_counts,
                             overall_score |->
                                 calculate_overall_score(averages.average_scores,
                                                         averages.task_gt_counts)]>>
    /\ pc' = "aggregated"
    /\ UNCHANGED <<shared, inputs, cosine, gt_expanded, pred_index, pos, alignment,
                   similarity_scores, unmatched, results, call>>

InitRunner ==
    /\ task = "drug"
    /\ gt_list_raw = <<>>
    /\ pred_list_raw = <<>>
    /\ field_weights = <<>>
    /\ pc = "runner"
    /\ evaluator = "none"
    /\ gt_val = None
    /\ pred_val = None
    /\ Idle

NextRunner == BenchmarkMultiple

SpecRunner == InitRunner /\ [][NextRunner]_vars

\* the ground-truth records a result stands for: the aligned ones, one sample each,
\* and the unmatched ones
GroundTruthRecords(result) ==
    Len(result.detailed_results) + Len(result.unmatched_ground_truth)

\* the overall score is the average of the task averages weighted by the counts,
\* over the tasks whose count is not 0
OverallIsWeightedAverage(a) ==
    LET counted == { t \in DOMAIN a.sample_counts : a.sample_counts[t] > 0 }
        times(r, n) == <<r[1] * n, r[2]>>
    IN  counted # {} =>
            REq(times(a.overall_score, total_weight_over(counted, a.sample_counts)),
                weighted_sum_over(counted, a.task_scores, a.sample_counts))

\* C27: the weight accumulated for a task over the scored documents is the number of
\* ground-truth records of the task, aligned and unmatched, each counted once, and
\* the overall score is the average of the task averages weighted by those counts,
\* the tasks whose count is 0 left out
C27_GroundTruthWeights ==
    aggregated # <<>> =>
        LET records(rs) == [i \in 1..Len(rs) |-> GroundTruthRecords(rs[i])]
        IN  /\ \A t \in DOMAIN aggregated[1].sample_counts :
                   aggregated[1].sample_counts[t]
                       = SeqSum(records(scored_results(all_results, t)))
            /\ OverallIsWeightedAverage(aggregated[1])
\* sample i of the result shows the values of the records the aligner paired as pair i
SampleShowsPair(sample, gt_rec, pred_rec) ==
    \A f \in DOMAIN sample.field_values :
        /\ sample.field_values[f].ground_truth = DictGet(gt_rec, f)
        /\ sample.field_values[f].prediction = DictGet(pred_rec, f)

\* C28: in the result of every task the phenotype task included, detailed_results has
\* one sample per aligned pair, sample i scoring the ground-truth record and the
\* prediction the aligner paired as pair i, and aligned_variants[i] is the key of
\* that pair, so that no pair is dropped, repeated or paired anew
C28_SamplesAreAlignedPairs ==
    (pc = "done" /\ "detailed_results" \in DOMAIN results) =>
        /\ Len(results.detailed_results) = Len(aligned_gt)
        /\ \A i \in 1..Len(results.detailed_results) :
               /\ i <= Len(aligned_gt)
               /\ SampleShowsPair(results.detailed_results[i], aligned_gt[i], aligned_pred[i])
        /\ "aligned_variants" \in DOMAIN results => results.aligned_variants = display_keys
(***************************************************************************)
(* The dependency issues of one functional-analysis prediction and the     *)
(* fields each of them discounts.                                          *)
(***************************************************************************)
\* a functional-analysis dict with the fields validate_all_dependencies reads
DependencyAnn(var, comparison, gene, gene_product, functional_terms, direction, association) ==
    [k \in {"Variant/Haplotypes", "Comparison Allele(s) or Genotype(s)", "Gene",
            "Gene/gene product", "Functional terms", "Direction of effect",
            "Is/Is Not associated"} |->
        CASE k = "Variant/Haplotypes" -> var
          [] k = "Comparison Allele(s) or Genotype(s)" -> comparison
          [] k = "Gene" -> gene
          [] k = "Gene/gene product" -> gene_product
          [] k = "Functional terms" -> functional_terms
          [] k = "Direction of effect" -> direction
          [] OTHER -> association]

\* evaluate_functional_analysis is called with one pair of dicts; the prediction has
\* a well-formed, an ill-formed or no variant and any of the other fields
InitDependencies ==
    /\ task = "fa"
    /\ gt_list_raw = <<DependencyAnn(T_rs1, None, T_gene, None, None, None, None)>>
    /\ pred_list_raw \in
           { <<DependencyAnn(var, comparison, gene, gene_product, functional_terms,
                             direction, association)>> :
                 var \in {None, T_rs1, <<"r", "s", "1", "a">>, <<"c", "y", "p", "2", "d", "6", "*", "4">>},
                 comparison \in {None, <<"C">>},
                 gene \in {None, T_gene},
                 gene_product \in {None, <<"C", "Y", "P", "2", "D", "6", " ", "e", "n", "z", "y", "m", "e">>},
                 functional_terms \in {None, <<"a", "c", "t", "i", "v", "i", "t", "y">>},
                 direction \in {None, T_dir},
                 association \in {None, T_assoc} }
    /\ field_weights = <<>>
    /\ pc = "pair"
    /\ evaluator = "none"
    /\ gt_val = None
    /\ pred_val = None
    /\ Idle

NextDependencies == EvaluatePair

SpecDependencies == InitDependencies /\ [][NextDependencies]_vars

\* the fields the issue-to-field mapping is written to discount for an issue
FieldsWrittenFor(issue) ==
    CASE issue = ISSUE_GENE_PRODUCT -> {"Functional terms", "Gene/gene product"}
      [] issue = ISSUE_VARIANT_REQUIRED ->
             {"Variant/Haplotypes", "Comparison Allele(s) or Genotype(s)"}
      [] issue = ISSUE_DIRECTION -> {"Direction of effect", "Is/Is Not associated"}
      [] StartsWith(issue, ISSUE_RSID_PREFIX) \/ StartsWith(issue, ISSUE_STAR_PREFIX) ->
             {"Variant/Haplotypes"}
      [] OTHER -> {"Gene", "Gene/gene product"}

\* the fields a sample's penalty_info lists the issue under
FieldsDiscountedFor(sample, issue) ==
    { f \in DOMAIN sample.penalty_info.issues_by_field :
        \E k \in 1..Len(sample.penalty_info.issues_by_field[f]) :
            sample.penalty_info.issues_by_field[f][k] = issue }

\* C29: in the functional-analysis scorer every dependency issue discounts the fields
\* written for it in the issue-to-field mapping: the Functional terms issue
\* "Functional terms" and "Gene/gene product", the Variant/Haplotypes issue the
\* variant and the comparison-allele field, the direction issue the direction and
\* the association field, an rsID or star-allele format issue "Variant/Haplotypes"
\* alone
C29_IssueFields ==
    pc = "pair_done" =>
        LET issue_fields(sample) ==
                \A k \in 1..Len(sample.dependency_issues) :
                    FieldsDiscountedFor(sample, sample.dependency_issues[k])
                        = FieldsWrittenFor(sample.dependency_issues[k])
        IN  issue_fields(results.detailed_results[1])
(***************************************************************************)
(* The phenotype aligner on records without a variant, where only the      *)
(* Gene + Drug(s) pass can pair them.                                      *)
(***************************************************************************)
\* ground-truth records with no variant: the Gene is a text, null or missing, the
\* Drug(s) a text or null
NullGeneGtVocab ==
    { Ann(None, None, T_gene, T_drug),
      Ann(None, None, None, T_drug),
      Ann(None, None, None, None),
      [k \in {"Variant/Haplotypes", "Drug(s)"} |->
          IF k = "Drug(s)" THEN T_drug ELSE None] }

NullGenePredVocab ==
    { Ann(T_rs1, None, T_gene, T_drug),
      Ann(T_rs1, None, None, T_drug),
      Ann(T_rs1, None, None, None) }

InitNullGene ==
    /\ task = "pheno"
    /\ gt_list_raw \in ListsUpTo(NullGeneGtVocab, MaxGt)
    /\ pred_list_raw \in ListsUpTo(NullGenePredVocab, MaxPred)
    /\ field_weights = <<>>
    /\ pc = "start"
    /\ evaluator = "none"
    /\ gt_val = None
    /\ pred_val = None
    /\ Idle

NextNullGene ==
    \/ MissingInput
    \/ Expand
    \/ AlignStep
    \/ FallbackStep
    \/ Collect
    \/ Score

SpecNullGene == InitNullGene /\ [][NextNullGene]_vars

\* the record carries a real Gene: a text that is not empty
HasGene(rec) == ComparedText(rec, "Gene") # <<>>

\* C30: the Gene + Drug(s) pass of the phenotype aligner pairs a ground-truth record
\* with a prediction only when both carry a real, non-empty Gene, so a ground-truth
\* record whose Gene is null or missing is never aligned by it and is returned in
\* unmatched_gt
C30_FallbackNeedsGene ==
    (task = "pheno" /\ AlignerReturned) =>
        /\ \A k \in 1..Len(pairs) :
               pairs[k].tier = 4 =>
                   HasGene(GtAt(pairs[k].g)) /\ HasGene(PredAt(pairs[k].p))
        /\ \A g \in 1..Len(gt_expanded) :
               (~HasGene(gt_expanded[g])
                /\ \A k \in 1..Len(pairs) : pairs[k].g = g => pairs[k].tier = 4)
                   => InList(gt_expanded[g], unmatched_gt)

====
